---- MODULE Spec2Model ----
(***************************************************************************)
(* A model of the sketch-helper editing engine: the DrawingScene with its  *)
(* tool state machine (src/drawing/scene.py), the undoable commands        *)
(* (src/drawing/commands.py), the QUndoStack the scene owns, and the       *)
(* assistant's ghost-preview flow (src/assistant/controller.py).           *)
(*                                                                         *)
(* Items are numbered objects.  An item that was never constructed has     *)
(* kind "none".  Positions are one-dimensional integers: a pointer         *)
(* displacement d stands for a Manhattan displacement of d scene units.    *)
(***************************************************************************)
EXTENDS Integers, Sequences, FiniteSets, TLC

\* ---------------------------------------------------------------- bounds
MaxItems == 3      \* item objects that may be constructed in one run
MaxPos == 3        \* largest position an item is dragged to
MaxDelta == 3      \* largest pointer coordinate during a gesture
MaxLog == 2        \* top-level commands kept in the undo stack
MaxFlows == 1      \* suggestion flows blocked in their dialog at once
MaxNested == 3     \* events handled while one dialog is open
MaxRaised == 1     \* flows that end by an exception in one run
MaxClip == 1       \* items copied or duplicated at once

\* ------------------------------------------------------ program constants
MoveEpsilon == 2   \* scene.py:739  abs(dx)+abs(dy) > 2.0
GhostOpacity == 35 \* controller.py:232 setOpacity(0.35), in percent
FullOpacity == 100 \* controller.py:317 setOpacity(1.0), in percent
NumEars == 2       \* suggestions.py:56 two triangles per ellipse
PasteOffset == 10  \* scene.py:407 QPointF(10, 10), and scene.py:462
PenWidth == 2      \* scene.py:515 _make_pen(width=2), suggestions.py:64
TagCatEar == "assistant:cat_ear"  \* suggestions.py:27 TAG_CAT_EAR

Items == 1..MaxItems
NoItem == 0        \* None, where the code holds an item or None
NoPos == -1        \* None, where the code holds a point or None
NoPoint == << >>   \* None, where the code holds a point of two coordinates
None == "None"               \* None, where the code holds a string or None
Nothing == [type |-> "None"] \* None, where the code holds a dict or an item

Tools == {"SELECT", "PEN", "ERASER", "LINE", "RECT", "ELLIPSE"}

VARIABLES
    item,               \* item[i]: the QGraphicsItem object i
    tool,               \* DrawingScene._tool
    current_item,       \* DrawingScene._current_item (PEN preview), or NoItem
    shape_item,         \* DrawingScene._shape_item (LINE/RECT/ELLIPSE preview)
    press_pos,          \* DrawingScene._press_pos is not None
    move_old_positions, \* DrawingScene._move_old_positions (<<>> when None)
    buttonDown,         \* a mouse button is held (between press and release)
    grabber,            \* the item Qt drags (its mouse grabber), or NoItem
    rubberBand,         \* the view is rubber-band selecting
    pointer,            \* pointer coordinate, relative to the first press
    command_list,       \* QUndoStack: the top-level commands
    index,              \* QUndoStack: the cursor (commands 1..index are done)
    macro_stack,        \* QUndoStack: the child lists of the open macros
    clipboard,          \* QApplication.clipboard().text()
    auto_enabled,       \* AssistantController.auto_enabled
    auto_suppressed,    \* AssistantController._auto_suppressed
    ghost_items,        \* AssistantController._ghost_items
    flows,              \* the _try_suggest invocations blocked in dlg.exec()
    ended,              \* the flow that terminated in the last step, if any
    log_limit,          \* how many top-level commands the session is followed for
    codec,              \* the call of the encoders and decoders under study
    stroke_color,       \* DrawingScene._stroke_color, by name()
    fill_color,         \* DrawingScene._fill_color, by name(), or None
    logger,             \* the logger of the scene and the controller, or None
    logged,             \* the events logged in the last step, when recorded
    shape_start,        \* DrawingScene._shape_start, or NoPoint
    scenePos,           \* event.scenePos() as the shape tools read it
    held                \* the mouse buttons held besides the first one

vars == << item, tool, current_item, shape_item, press_pos, move_old_positions,
           buttonDown, grabber, rubberBand, pointer, command_list, index,
           macro_stack, clipboard, auto_enabled, auto_suppressed, ghost_items, flows, ended,
           log_limit, codec, stroke_color, fill_color, logger, logged,
           shape_start, scenePos, held >>


\* ------------------------------------------------------------------ items
\* An object that was not constructed yet.  created counts the emissions of
\* item_created (scene.py:308) that carried the object.
\* Its pen and brush are Qt's defaults (a black pen of width 1, no brush),
\* its z value 0, its data unset, its geometry empty.
Blank == [kind |-> "none", scene |-> FALSE, pos |-> 0, opacity |-> FullOpacity,
          enabled |-> TRUE, selectable |-> FALSE, movable |-> FALSE,
          selected |-> FALSE, created |-> 0,
          stroke |-> "#000000", width |-> 1,
          brush |-> [style |-> "NoBrush", color |-> "#000000", alpha |-> 255],
          z |-> 0, tag |-> None, geom |-> << >>]

\* A freshly constructed QGraphicsItem of the given kind, not in a scene.
NewItem(kind) == [Blank EXCEPT !.kind = kind]

\* QBrush() and QBrush(QColor(hex)), as scene.py:221-223 and 238-240 and
\* serialization.py:36-38 build them.
NoBrush == Blank.brush
SolidBrush(hex) == [style |-> "SolidPattern", color |-> hex, alpha |-> 255]

\* item.setPen of a pen of the given colour and width (scene.py:189-191,
\* 229-231, serialization.py:28-31)
SetPen(it, hex, width) == [it EXCEPT !.stroke = hex, !.width = width]

\* The geometry of an item is a list of coordinates: the points of a path or
\* a polygon, the two ends of a line, the origin and the size of a rect or
\* an ellipse.  The editing specifications do not follow it: an item drawn
\* or generated there has the geometry its constructor gives it.
StartGeom(kind) ==
    CASE kind = "path" -> << 0 >>
      [] kind = "polygon" -> << 0, 0, 0 >>
      [] OTHER -> << 0, 0, 0, 0 >>

\* Interaction flags that are left as the constructor set them.
KeepInteractionFlags(it) == it

\* scene.py:193 _enable_interaction_flags
EnableInteractionFlags(it) == [it EXCEPT !.selectable = TRUE, !.movable = TRUE]

\* QGraphicsScene.addItem / removeItem on the item function
AddItem(its, i) == [its EXCEPT ![i].scene = TRUE]
RemoveItem(its, i) == [its EXCEPT ![i].scene = FALSE]

\* QGraphicsScene.items()
SceneItems(its) == {i \in Items : its[i].scene}

\* QGraphicsScene.selectedItems()
SelectedItems(its) == {i \in Items : its[i].scene /\ its[i].selected}

\* The unconstructed objects, and the n lowest of them.
Free(its) == {i \in Items : its[i].kind = "none"}
RECURSIVE LowestN(_, _)
LowestN(S, n) ==
    IF n = 0 \/ S = {} THEN << >>
    ELSE LET m == CHOOSE x \in S : \A y \in S : x <= y
         IN << m >> \o LowestN(S \ {m}, n - 1)

Range(s) == {s[k] : k \in 1..Len(s)}

\* --------------------------------------------------------------- commands
AddItemCommand(i, already_in_scene) ==
    [type |-> "Add", item |-> i, first_redo |-> already_in_scene]
RemoveItemCommand(its, i) ==
    [type |-> "Remove", item |-> i, pos |-> its[i].pos]
MoveItemsCommand(items, old_positions, new_positions) ==
    [type |-> "Move", items |-> items, old |-> old_positions,
     new |-> new_positions]
MacroCommand(children) == [type |-> "Macro", children |-> children]

\* A redo of an Add that stays the no-op of its first call.
AddRedoSkipping(its, c) == its

\* commands.py:18 AddItemCommand.redo
AddRedo(its, c) ==
    IF c.first_redo THEN its
    ELSE IF ~its[c.item].scene THEN AddItem(its, c.item) ELSE its

\* commands.py:26 AddItemCommand.undo
AddUndo(its, c) ==
    IF its[c.item].scene THEN RemoveItem(its, c.item) ELSE its

\* commands.py:38 RemoveItemCommand.redo
RemoveRedo(its, c) ==
    IF its[c.item].scene THEN RemoveItem(its, c.item) ELSE its

\* An undo of a Remove that restores nothing.
RemoveUndoNothing(its, c) == its

\* commands.py:42 RemoveItemCommand.undo
RemoveUndo(its, c) ==
    IF ~its[c.item].scene
    THEN [AddItem(its, c.item) EXCEPT ![c.item].pos = c.pos]
    ELSE its

\* commands.py:59 MoveItemsCommand.redo
MoveRedo(its, c) ==
    [i \in Items |-> IF i \in c.items THEN [its[i] EXCEPT !.pos = c.new[i]]
                     ELSE its[i]]

\* An undo of a Move that also puts every other item back at the origin.
MoveUndoResettingOthers(its, c) ==
    [i \in Items |-> IF i \in c.items THEN [its[i] EXCEPT !.pos = c.old[i]]
                     ELSE [its[i] EXCEPT !.pos = 0]]

\* commands.py:63 MoveItemsCommand.undo
MoveUndo(its, c) ==
    [i \in Items |-> IF i \in c.items THEN [its[i] EXCEPT !.pos = c.old[i]]
                     ELSE its[i]]

\* The command as redo() leaves it: an Add forgets its first redo.
AfterRedo(c) == IF c.type = "Add" THEN [c EXCEPT !.first_redo = FALSE] ELSE c

\* QUndoCommand.redo: a macro redoes its children first to last.
RECURSIVE CmdRedo(_, _)
RECURSIVE RedoAll(_, _, _)
RedoAll(its, cs, k) ==
    IF k > Len(cs) THEN its ELSE RedoAll(CmdRedo(its, cs[k]), cs, k + 1)
CmdRedo(its, c) ==
    CASE c.type = "Add" -> AddRedo(its, c)
      [] c.type = "Remove" -> RemoveRedo(its, c)
      [] c.type = "Move" -> MoveRedo(its, c)
      [] OTHER -> RedoAll(its, c.children, 1)

\* QUndoCommand.undo: a macro undoes its children last to first.
RECURSIVE CmdUndo(_, _)
RECURSIVE UndoAll(_, _, _)

\* A macro whose undo reverses its last child only.
UndoLastOnly(its, cs, k) ==
    IF k < 1 THEN its ELSE CmdUndo(its, cs[k])

UndoAll(its, cs, k) ==
    IF k < 1 THEN its ELSE UndoAll(CmdUndo(its, cs[k]), cs, k - 1)
CmdUndo(its, c) ==
    CASE c.type = "Add" -> AddUndo(its, c)
      [] c.type = "Remove" -> RemoveUndo(its, c)
      [] c.type = "Move" -> MoveUndo(its, c)
      [] OTHER -> UndoAll(its, c.children, Len(c.children))

\* ------------------------------------------------------------- QUndoStack
\* A stack value st is [command_list, index, macro_stack].  An open macro is
\* kept as its child list in macro_stack and joins command_list (or the
\* enclosing macro) when endMacro closes it; the undone tail is dropped when
\* the outermost macro is opened, as QUndoStack.beginMacro does.
Stack == [command_list |-> command_list, index |-> index,
          macro_stack |-> macro_stack]

EmptyStack == [command_list |-> << >>, index |-> 0, macro_stack |-> << >>]

Truncated(st) == SubSeq(st.command_list, 1, st.index)

\* A push that keeps the undone tail and records the command after it.
PushKeepingTail(st, its, c) ==
    [items |-> CmdRedo(its, c),
     stack |-> [st EXCEPT !.command_list = Append(st.command_list, AfterRedo(c)),
                          !.index = st.index + 1]]

\* QUndoStack.push: redo the command, then record it.  The result is the
\* stack and the items after the push.
Push(st, its, c) ==
    LET done == AfterRedo(c)
        n == Len(st.macro_stack)
    IN [items |-> CmdRedo(its, c),
        stack |->
          IF n = 0
          THEN [st EXCEPT !.command_list = Append(Truncated(st), done),
                          !.index = st.index + 1]
          ELSE [st EXCEPT !.macro_stack[n] = Append(st.macro_stack[n], done)]]

\* QUndoStack.beginMacro
BeginMacro(st) ==
    IF st.macro_stack = << >>
    THEN [st EXCEPT !.command_list = Truncated(st), !.macro_stack = << << >> >>]
    ELSE [st EXCEPT !.macro_stack = Append(st.macro_stack, << >>)]

\* QUndoStack.endMacro
EndMacro(st) ==
    LET n == Len(st.macro_stack)
    IN IF n = 0 THEN st
       ELSE IF n = 1
       THEN [st EXCEPT !.command_list =
                           Append(st.command_list, MacroCommand(st.macro_stack[1])),
                       !.index = st.index + 1,
                       !.macro_stack = << >>]
       ELSE [st EXCEPT !.macro_stack =
                 [SubSeq(st.macro_stack, 1, n - 1) EXCEPT
                     ![n - 1] = Append(st.macro_stack[n - 1],
                                       MacroCommand(st.macro_stack[n]))]]

\* QUndoStack.canUndo / canRedo
CanUndo(st) == st.macro_stack = << >> /\ st.index > 0
CanRedo(st) == st.macro_stack = << >> /\ st.index < Len(st.command_list)

\* QUndoStack.undo / redo: the stack and the items afterwards.
StackUndo(st, its) ==
    IF ~CanUndo(st) THEN [items |-> its, stack |-> st]
    ELSE [items |-> CmdUndo(its, st.command_list[st.index]),
          stack |-> [st EXCEPT !.index = st.index - 1]]

StackRedo(st, its) ==
    IF ~CanRedo(st) THEN [items |-> its, stack |-> st]
    ELSE [items |-> CmdRedo(its, st.command_list[st.index + 1]),
          stack |-> [st EXCEPT !.index = st.index + 1]]

\* ------------------------------------------------------------ whole state
\* The state as one record S, so that a handler is an operator from S to the
\* state it leaves.  ended starts each step as "no flow terminated".
State == [item |-> item, tool |-> tool, current_item |-> current_item,
          shape_item |-> shape_item, press_pos |-> press_pos,
          move_old_positions |-> move_old_positions, buttonDown |-> buttonDown,
          grabber |-> grabber, rubberBand |-> rubberBand, pointer |-> pointer,
          command_list |-> command_list, index |-> index,
          macro_stack |-> macro_stack, clipboard |-> clipboard,
          auto_enabled |-> auto_enabled,
          auto_suppressed |-> auto_suppressed, ghost_items |-> ghost_items,
          flows |-> flows,
          ended |-> [trigger |-> "none", choice |-> "none", how |-> "none",
                     rejected |-> ended.rejected, raised |-> ended.raised],
          stroke_color |-> stroke_color, fill_color |-> fill_color,
          logger |-> logger, logged |-> << >>,
          shape_start |-> shape_start, scenePos |-> scenePos,
          held |-> held]

Becomes(S) ==
    /\ item' = S.item
    /\ tool' = S.tool
    /\ current_item' = S.current_item
    /\ shape_item' = S.shape_item
    /\ press_pos' = S.press_pos
    /\ move_old_positions' = S.move_old_positions
    /\ buttonDown' = S.buttonDown
    /\ grabber' = S.grabber
    /\ rubberBand' = S.rubberBand
    /\ pointer' = S.pointer
    /\ command_list' = S.command_list
    /\ index' = S.index
    /\ macro_stack' = S.macro_stack
    /\ clipboard' = S.clipboard
    /\ auto_enabled' = S.auto_enabled
    /\ auto_suppressed' = S.auto_suppressed
    /\ ghost_items' = S.ghost_items
    /\ flows' = S.flows
    /\ ended' = S.ended
    /\ log_limit' = log_limit
    /\ codec' = codec
    /\ stroke_color' = S.stroke_color
    /\ fill_color' = S.fill_color
    /\ logger' = S.logger
    /\ logged' = S.logged
    /\ shape_start' = S.shape_start
    /\ scenePos' = S.scenePos
    /\ held' = S.held

StackOf(S) == [command_list |-> S.command_list, index |-> S.index,
               macro_stack |-> S.macro_stack]

WithStack(S, st) ==
    [S EXCEPT !.command_list = st.command_list, !.index = st.index,
              !.macro_stack = st.macro_stack]

\* `if self.logger: self.logger.log(event_type, ...)`: the call is made when
\* the logger is not None.  EventLogger.log is fire-and-forget: it returns
\* and touches nothing of the scene or the controller.  A "Recording" logger
\* is an EventLogger whose events of the current step are kept.
HasLogger(S) == S.logger # None
Log(S, event_type) ==
    IF HasLogger(S) /\ S.logger = "Recording"
    THEN [S EXCEPT !.logged = Append(@, event_type)]
    ELSE S

\* self.undo_stack.push(cmd) / beginMacro / endMacro / undo / redo on S
UndoStackPush(S, c) ==
    LET r == Push(StackOf(S), S.item, c)
    IN [WithStack(S, r.stack) EXCEPT !.item = r.items]
UndoStackBeginMacro(S) == WithStack(S, BeginMacro(StackOf(S)))
UndoStackEndMacro(S) == WithStack(S, EndMacro(StackOf(S)))
UndoStackUndo(S) ==
    LET r == StackUndo(StackOf(S), S.item)
    IN [WithStack(S, r.stack) EXCEPT !.item = r.items]
UndoStackRedo(S) ==
    LET r == StackRedo(StackOf(S), S.item)
    IN [WithStack(S, r.stack) EXCEPT !.item = r.items]

EmptyMap == [i \in {} |-> 0]

\* --------------------------------------------------- Qt's default handling
\* QGraphicsScene.clearSelection: every selected item of the scene.
ClearSelection(its) ==
    [i \in Items |-> IF its[i].scene THEN [its[i] EXCEPT !.selected = FALSE]
                     ELSE its[i]]

\* QGraphicsScene.mousePressEvent (the super() call of scene.py:504 and 578):
\* the press goes to the item under the pointer; an enabled selectable item
\* becomes the selection (unless it is selected already) and grabs the mouse;
\* a disabled item swallows the press; a press on no item clears the
\* selection and, with the view in RubberBandDrag (tool SELECT,
\* editor.py:108), starts the rubber band.
QtMousePress(S, target) ==
    IF target = NoItem
    THEN [S EXCEPT !.item = ClearSelection(S.item), !.grabber = NoItem,
                   !.rubberBand = (S.tool = "SELECT")]
    ELSE IF S.item[target].enabled /\ S.item[target].selectable
    THEN [S EXCEPT !.item = IF S.item[target].selected THEN S.item
                             ELSE [ClearSelection(S.item) EXCEPT
                                      ![target].selected = TRUE],
                   !.grabber = target]
    ELSE S

\* The items QGraphicsItem.mouseMoveEvent moves with the grabber.
Dragged(S) ==
    IF S.grabber # NoItem /\ S.item[S.grabber].scene /\ S.item[S.grabber].movable
    THEN {i \in SelectedItems(S.item) \cup {S.grabber} : S.item[i].movable}
    ELSE {}

\* QGraphicsScene.mouseMoveEvent (the super() call of scene.py:618 and 647)
\* with the pointer now at p: the grabber and the selected movable items
\* follow the pointer; a rubber band makes band the selection.
QtMouseMove(S, p, band) ==
    LET moved == [i \in Items |->
                     IF i \in Dragged(S)
                     THEN [S.item[i] EXCEPT !.pos = @ + p - S.pointer]
                     ELSE S.item[i]]
        banded == [i \in Items |->
                     IF moved[i].scene
                     THEN [moved[i] EXCEPT !.selected = (i \in band)]
                     ELSE moved[i]]
    IN [S EXCEPT !.item = IF S.rubberBand THEN banded ELSE moved,
                 !.pointer = p]

\* QGraphicsScene.mouseReleaseEvent (the super() call of scene.py:778):
\* the grab and the rubber band end.
QtMouseRelease(S) == [S EXCEPT !.grabber = NoItem, !.rubberBand = FALSE]

\* ------------------------------------------------- assistant: the oracle
\* controller.py:104 _build_context (the fields the wizard reads, and the
\* suppression set the controller passes along)
BuildContext(S, trigger) ==
    [trigger |-> trigger,
     has_ellipse |-> \E i \in SceneItems(S.item) : S.item[i].kind = "ellipse",
     auto_suppressed |-> S.auto_suppressed]

\* wizard.py:15 propose_suggestion: abstains without an ellipse, and else
\* proposes CAT_EARS; the dict it returns has no "suggestion_id" key.
ProposeSuggestion(ctx) ==
    IF ~ctx.has_ellipse THEN Nothing
    ELSE [suggestion |-> "CAT_EARS", uncertainty_pct |-> 70]

\* proposal.get("suggestion_id"), controller.py:347
SuggestionId(proposal) ==
    IF "suggestion_id" \in DOMAIN proposal THEN proposal.suggestion_id ELSE None

\* ------------------------------------------------- assistant: ghost items
\* A ghost look that leaves the interaction flags as they are.
MarkGhostLookOnly(it) ==
    [it EXCEPT !.opacity = GhostOpacity, !.enabled = FALSE, !.selected = FALSE]

\* controller.py:231-235: the ghost look.  QGraphicsItem.setEnabled(False)
\* also deselects the item.
MarkGhost(it) ==
    [it EXCEPT !.opacity = GhostOpacity, !.enabled = FALSE,
               !.selectable = FALSE, !.movable = FALSE, !.selected = FALSE]

\* A commit that restores the opacity and the enabled state only.
RestoreGhostLookOnly(it) ==
    [it EXCEPT !.opacity = FullOpacity, !.enabled = TRUE]

\* controller.py:317-320: the ghost look removed.
RestoreGhost(it) ==
    [it EXCEPT !.opacity = FullOpacity, !.enabled = TRUE,
               !.selectable = TRUE, !.movable = TRUE]

IsGhostLook(it) == ~it.enabled /\ it.opacity = GhostOpacity

\* The items a command holds.
RECURSIVE CmdItems(_)
RECURSIVE SeqItems(_, _)
SeqItems(cs, k) ==
    IF k > Len(cs) THEN {} ELSE CmdItems(cs[k]) \cup SeqItems(cs, k + 1)
CmdItems(c) ==
    CASE c.type = "Add" -> {c.item}
      [] c.type = "Remove" -> {c.item}
      [] c.type = "Move" -> c.items \cup DOMAIN c.old
      [] OTHER -> SeqItems(c.children, 1)

\* The objects some part of the program still holds a reference to.
Referenced(S) ==
    SceneItems(S.item)
    \cup SeqItems(S.command_list, 1)
    \cup UNION {SeqItems(S.macro_stack[k], 1) : k \in 1..Len(S.macro_stack)}
    \cup UNION {Range(S.flows[k].ghost) : k \in 1..Len(S.flows)}
    \cup Range(S.ghost_items)
    \cup ({S.current_item, S.shape_item, S.grabber} \ {NoItem})
    \cup DOMAIN S.move_old_positions

\* An object nothing refers to any more is garbage: it returns to the
\* unconstructed ones (commands.py:15 and 35, controller.py:238 hold the
\* references).
Collect(S) ==
    LET kept == Referenced(S)
    IN [S EXCEPT !.item = [i \in Items |->
                              IF i \in kept THEN S.item[i] ELSE Blank]]

\* A cleanup that forgets the ghosts and leaves them in the scene.
ClearGhostListOnly(S) == [S EXCEPT !.ghost_items = << >>]

\* A cleanup that does not look whether a ghost is still in a scene: the
\* call it.scene().removeItem(it) raises at the first ghost that is not,
\* with the ghosts before it removed and the list kept.
ClearGhostUnchecked(S) ==
    LET n == Len(S.ghost_items)
        stale == {k \in 1..n : ~S.item[S.ghost_items[k]].scene}
        stop == IF stale = {} THEN n + 1
                ELSE CHOOSE k \in stale : \A j \in stale : k <= j
        gone == {S.ghost_items[k] : k \in 1..(stop - 1)}
    IN [S EXCEPT !.item = [i \in Items |->
                              IF i \in gone
                              THEN [S.item[i] EXCEPT !.scene = FALSE]
                              ELSE S.item[i]],
                 !.ghost_items = IF stale = {} THEN << >> ELSE @]

\* controller.py:396 _clear_ghost: every ghost still in a scene is removed
\* from it, and the list is emptied.
ClearGhost(S) ==
    [S EXCEPT !.item = [i \in Items |->
                           IF i \in Range(S.ghost_items) /\ S.item[i].scene
                           THEN [S.item[i] EXCEPT !.scene = FALSE]
                           ELSE S.item[i]],
              !.ghost_items = << >>]

\* suggestions.py:31 make_cat_ears_for_first_ellipse, then controller.py:231:
\* NumEars new selectable, movable polygons, given the ghost look and added
\* to the scene.
InsertGhosts(S, ids) ==
    [S EXCEPT !.item = [i \in Items |->
                          IF i \in Range(ids)
                          THEN [MarkGhost(EnableInteractionFlags(
                                    SetPen(NewItem("polygon"), "#000000",
                                           PenWidth)))
                                  EXCEPT !.scene = TRUE, !.tag = TagCatEar,
                                         !.geom = StartGeom("polygon")]
                          ELSE S.item[i]],
              !.ghost_items = ids]

\* ------------------------------------------------ assistant: the flow
\* A step that may raise is given a failure: [at |-> "none"] for none.
NoFail == [at |-> "none", k |-> 0]

\* What the caller of _try_suggest does once it returns: mouseReleaseEvent
\* resets its gesture state (scene.py:679 and 729).
Continue(S, caller) ==
    CASE caller = "pen" -> [S EXCEPT !.current_item = NoItem]
      [] caller = "shape" -> [S EXCEPT !.shape_item = NoItem,
                                       !.shape_start = NoPoint]
      [] OTHER -> S

\* The record of a flow that terminates in this step.  Two fields are kept
\* from step to step: an auto flow that was decided otherwise than by accept
\* adds its suggestion to ended.rejected, and a flow that raises is counted
\* in ended.raised.
Terminated(S, frame, choice, how) ==
    [S EXCEPT !.ended =
        [trigger |-> frame.trigger, choice |-> choice, how |-> how,
         rejected |-> IF frame.trigger = "auto"
                         /\ choice \in {"ignore", "override", "cancel"}
                      THEN S.ended.rejected \cup {frame.proposal.suggestion}
                      ELSE S.ended.rejected,
         raised |-> S.ended.raised + (IF how = "raise" THEN 1 ELSE 0)]]

\* A notice that is shown for every abstention, whatever the trigger.
NoSuggestionAlways(S, trigger) ==
    [S EXCEPT !.ended.trigger = trigger, !.ended.how = "notice"]

\* controller.py:199-206: a manual invocation that got no proposal shows the
\* "Pas de suggestion" dialog, which the user closes; an automatic one
\* shows nothing.
NoSuggestion(S, trigger) ==
    IF trigger = "manual"
    THEN [S EXCEPT !.ended.trigger = trigger, !.ended.how = "notice"]
    ELSE S

\* controller.py:174-249 _try_suggest up to dlg.exec(): an abstention returns
\* at once; a proposal clears the previous ghost, inserts its own and blocks
\* in the dialog.  Building the dialog (line 243) is outside the try.
TrySuggest(S, trigger, caller, fail) ==
    LET proposal == ProposeSuggestion(BuildContext(S, trigger))
        shown == IF trigger = "auto" THEN Log(S, "autosuggest_shown") ELSE S
        C == Collect(ClearGhost(shown))
        ids == LowestN(Free(C.item), NumEars)
        G == InsertGhosts(C, ids)
        frame == [trigger |-> trigger, caller |-> caller, proposal |-> proposal,
                  ghost |-> ids, events |-> 0,
                  before |-> [live |-> SceneItems(S.item), stack |-> StackOf(S)]]
    IN IF proposal = Nothing
       THEN Continue(NoSuggestion(Log(S, "ai_output"), trigger), caller)
       ELSE IF fail.at = "dialog"
       THEN Continue(Terminated(G, frame, None, "raise"), caller)
       ELSE [G EXCEPT !.flows = Append(S.flows, frame)]

\* controller.py:315-330: the commit loop from the k-th ghost on; a failure
\* at k raises in the push of the k-th ghost, after its look was restored.
RECURSIVE CommitLoop(_, _, _)
CommitLoop(S, k, failAt) ==
    IF k > Len(S.ghost_items) THEN S
    ELSE LET i == S.ghost_items[k]
             R == [S EXCEPT !.item[i] = RestoreGhost(S.item[i])]
         IN IF k = failAt THEN R
            ELSE CommitLoop(UndoStackPush(R, AddItemCommand(i, TRUE)),
                            k + 1, failAt)

\* controller.py:307-338: the accept branch.
AcceptCommit(S, failAt) ==
    LET L == CommitLoop(UndoStackBeginMacro(S), 1, failAt)
    IN IF failAt \in 1..Len(S.ghost_items) THEN L
       ELSE [UndoStackEndMacro(L) EXCEPT !.ghost_items = << >>]

\* controller.py:345-356: an auto flow that was not accepted suppresses the
\* suggestion id, when the proposal has one.
Suppress(S, frame) ==
    IF frame.trigger = "auto" /\ SuggestionId(frame.proposal) # None
    THEN Log([S EXCEPT !.auto_suppressed =
                  @ \cup {SuggestionId(frame.proposal)}],
             "assistant_suppress")
    ELSE S

\* controller.py:264-300: the events logged once the choice was read.
LogDecision(S, frame, choice) ==
    Log(Log(S, "user_action"),
        CASE choice = "accept" /\ frame.trigger = "auto" -> "autosuggest_accept"
          [] choice = "accept" -> "assistant_accept"
          [] frame.trigger = "auto" -> "autosuggest_reject"
          [] OTHER -> "assistant_reject")

\* controller.py:256-368 _try_suggest from dlg.exec() on, for the innermost
\* blocked flow: the user's choice (a closed dialog is "cancel"), the
\* commit or the suppression, and the finally clause; then the caller goes
\* on.  fail.at is "exec" (dlg.exec raises, no choice was read), "log" (the
\* logger raises after the choice was read; there is no such call without
\* a logger), "push" (the commit raises at the fail.k-th ghost) or "none".
Decide(S, choice, fail) ==
    LET n == Len(S.flows)
        frame == S.flows[n]
        P == [S EXCEPT !.flows = SubSeq(S.flows, 1, n - 1)]
        read == IF fail.at = "exec" THEN None ELSE choice
        raises == fail.at \in {"exec", "push"}
                     \/ (fail.at = "log" /\ HasLogger(S))
        L == LogDecision(P, frame, choice)
        body == CASE fail.at = "exec" -> P
                  [] fail.at = "log" /\ HasLogger(S) -> P
                  [] read = "accept" ->
                        AcceptCommit(L, IF fail.at = "push" THEN fail.k ELSE 0)
                  [] OTHER -> Suppress(L, frame)
        final == IF read # "accept" THEN ClearGhost(body) ELSE body
        how == IF raises THEN "raise" ELSE "return"
    IN Continue(Terminated(final, frame, read, how), frame.caller)

\* ------------------------------------------------------- scene: handlers
\* A slot that asks for a suggestion whether auto suggestions are on or not.
OnItemCreatedAlways(S, caller, fail) == TrySuggest(S, "auto", caller, fail)

\* controller.py:152 on_item_created, connected to item_created
\* (controller.py:73)
OnItemCreated(S, caller, fail) ==
    IF ~S.auto_enabled THEN Continue(S, caller)
    ELSE TrySuggest(S, "auto", caller, fail)

\* The item a gesture of the caller's tool is drawing.
DrawnItem(S, caller) ==
    IF caller = "pen" THEN S.current_item ELSE S.shape_item

\* scene.py:306 _finalize_created_item: emits item_created with the item the
\* gesture drew; the controller's slot runs before emit returns.
FinalizeCreatedItem(S, caller, fail) ==
    OnItemCreated([S EXCEPT !.item[DrawnItem(S, caller)].created = @ + 1],
                  caller, fail)

\* controller.py:144 on_manual_invoke
OnManualInvoke(S, fail) ==
    TrySuggest(Log(S, "invoke_help"), "manual", "manual", fail)

\* controller.py:84 set_auto_enabled
SetAutoEnabled(S, enabled) ==
    Log([S EXCEPT !.auto_enabled = enabled], "assistant_auto_toggle")

\* scene.py:314 set_tool
SetTool(S, t) == Log([S EXCEPT !.tool = t], "tool_change")

\* A set_stroke_color that also gives the new colour to the item of the
\* gesture in progress.
SetStrokeColorRestyling(S, hex) ==
    Log([S EXCEPT !.stroke_color = hex,
                  !.item = [i \in Items |->
                               IF i \in {S.current_item, S.shape_item}
                               THEN [S.item[i] EXCEPT !.stroke = hex]
                               ELSE S.item[i]]],
        "stroke_color_change")

\* scene.py:324 set_stroke_color: the colour is kept by its name()
SetStrokeColor(S, hex) ==
    Log([S EXCEPT !.stroke_color = hex], "stroke_color_change")

\* scene.py:337 set_fill_color: a colour, or None for no fill
SetFillColor(S, color) ==
    Log([S EXCEPT !.fill_color = color], "fill_color_change")

ShapeKind(t) ==
    CASE t = "LINE" -> "line" [] t = "RECT" -> "rect" [] OTHER -> "ellipse"

\* QRectF(a, p).normalized() as << x, y, width, height >>: a negative width
\* or height is made positive and the origin moved to the other corner.
NormalizedRect(a, p) ==
    LET w == p[1] - a[1]
        h == p[2] - a[2]
    IN << IF w < 0 THEN a[1] + w ELSE a[1], IF h < 0 THEN a[2] + h ELSE a[2],
          IF w < 0 THEN -w ELSE w, IF h < 0 THEN -h ELSE h >>

\* A move that sets QRectF(a, p) as it is, without normalized().
ShapeGeomRaw(t, a, p) ==
    IF t = "LINE" THEN << a[1], a[2], p[1], p[2] >>
    ELSE << a[1], a[2], p[1] - a[1], p[2] - a[2] >>

\* scene.py:630-643: the geometry a move gives the item of a shape gesture
\* that started at a, with the pointer at p: QLineF(a, p) as
\* << x1, y1, x2, y2 >> for the LINE tool, the normalized rectangle for the
\* others.  The press gives QLineF(p, p) and QRectF(p, p) (scene.py:527,
\* 543, 558), which are the same with a = p.
ShapeGeom(t, a, p) ==
    IF t = "LINE" THEN << a[1], a[2], p[1], p[2] >> ELSE NormalizedRect(a, p)

\* A new item of the given kind, made selectable and movable and added to
\* the scene as object i (scene.py:514-517, 528-533, 544-548, 559-563).
\* The pen has the current stroke colour (scene.py:184 _make_pen); a rect or
\* an ellipse gets the current fill (scene.py:214 _apply_fill).
Inserted(S, i, kind) ==
    [S.item EXCEPT ![i] =
        [EnableInteractionFlags(SetPen(NewItem(kind), S.stroke_color, PenWidth))
           EXCEPT !.scene = TRUE,
                  !.geom = CASE kind = "line" ->
                                  ShapeGeom("LINE", S.scenePos, S.scenePos)
                             [] kind \in {"rect", "ellipse"} ->
                                  ShapeGeom("RECT", S.scenePos, S.scenePos)
                             [] OTHER -> StartGeom(kind),
                  !.brush = IF kind \in {"rect", "ellipse"}
                               /\ S.fill_color # None
                            THEN SolidBrush(S.fill_color) ELSE NoBrush]]

\* generation_catalog.py:6 _default_pen: the items of the catalog have a
\* black pen of width 2 and no brush, whatever the scene's colours are.
Generated(S, i, kind) ==
    Inserted([S EXCEPT !.stroke_color = "#000000", !.fill_color = None],
             i, kind)

\* scene.py:478 mousePressEvent: a button goes down with the pointer over
\* target (an item of the scene, or NoItem); i is the object a drawing tool
\* constructs.
MousePressEvent(S, target, i) ==
    LET P == [S EXCEPT !.buttonDown = TRUE]
    IN CASE S.tool = "ERASER" ->
              IF target # NoItem
              THEN Log(UndoStackPush(P, RemoveItemCommand(P.item, target)),
                       "erase")
              ELSE QtMousePress(P, NoItem)
         [] S.tool = "PEN" ->
              Log([P EXCEPT !.item = Inserted(S, i, "path"),
                            !.current_item = i],
                  "pen_start")
         [] S.tool \in {"LINE", "RECT", "ELLIPSE"} ->
              Log([P EXCEPT !.item = Inserted(S, i, ShapeKind(S.tool)),
                            !.shape_item = i, !.shape_start = S.scenePos],
                  ShapeKind(S.tool) \o "_start")
         [] OTHER ->
              LET Q == QtMousePress([P EXCEPT !.press_pos = S.pointer], target)
              IN Log([Q EXCEPT !.move_old_positions =
                         [j \in SelectedItems(Q.item) |-> Q.item[j].pos]],
                     "select_press")

\* The pointer coordinate matters from a SELECT press on (scene.py:575
\* keeps the press position) and while Qt drags or bands; it is followed
\* only then.
Followed(S) == S.press_pos # NoPos \/ S.grabber # NoItem \/ S.rubberBand

\* scene.py:593 mouseMoveEvent: the pointer moves to p with a button held,
\* and is then over target; band is what a rubber band would enclose.
MouseMoveEvent(S, p, target, band) ==
    LET M == IF Followed(S) THEN [S EXCEPT !.pointer = p] ELSE S
    IN CASE S.tool = "ERASER" ->
              IF target # NoItem
              THEN Log(UndoStackPush(M, RemoveItemCommand(S.item, target)),
                       "erase")
              ELSE IF Followed(S) THEN QtMouseMove(S, p, band) ELSE S
         [] S.tool = "PEN" /\ S.current_item # NoItem -> M
         [] S.tool \in {"LINE", "RECT", "ELLIPSE"} /\ S.shape_start # NoPoint
              /\ S.shape_item # NoItem ->
              [M EXCEPT !.item[S.shape_item].geom =
                            ShapeGeom(S.tool, S.shape_start, S.scenePos)]
         [] OTHER -> IF Followed(S) THEN QtMouseMove(S, p, band) ELSE S

\* A SELECT release that records every changed position, however small the
\* pointer's displacement.
SelectReleaseAnyDistance(S) ==
    LET old == S.move_old_positions
        keys == SelectedItems(S.item) \cap DOMAIN old
        new_positions == [j \in keys |-> S.item[j].pos]
        changed == \E j \in keys : new_positions[j] # old[j]
        pushed == IF DOMAIN old # {} /\ changed
                  THEN UndoStackPush(S, MoveItemsCommand(keys, old, new_positions))
                  ELSE S
    IN [pushed EXCEPT !.move_old_positions = EmptyMap, !.press_pos = NoPos]

\* scene.py:735-775: the SELECT branch of mouseReleaseEvent.
SelectRelease(S) ==
    LET delta == S.pointer - S.press_pos
        moved == (IF delta < 0 THEN -delta ELSE delta) > MoveEpsilon
        old == S.move_old_positions
        keys == SelectedItems(S.item) \cap DOMAIN old
        new_positions == [j \in keys |-> S.item[j].pos]
        changed == \E j \in keys : new_positions[j] # old[j]
        L == IF moved THEN Log(S, "item_moved") ELSE S
        pushed == IF moved /\ DOMAIN old # {} /\ changed
                  THEN UndoStackPush(L, MoveItemsCommand(keys, old, new_positions))
                  ELSE L
    IN [pushed EXCEPT !.move_old_positions = EmptyMap, !.press_pos = NoPos]

\* scene.py:692-711: with a logger, the end of a shape reads line() of the
\* item when the tool is LINE and rect() otherwise; a line item has no
\* rect() and the other items have no line(), so the read raises
\* AttributeError when the item is not of the tool's kind.
ShapeEndRaises(S) ==
    HasLogger(S) /\ (S.tool = "LINE") # (S.item[S.shape_item].kind = "line")

\* A release that emits item_created for the finished item and pushes no
\* command for it.
MouseReleaseWithoutPush(S, fail) ==
    LET R == [S EXCEPT !.buttonDown = FALSE, !.pointer = 0,
                       !.rubberBand = FALSE]
    IN CASE S.tool = "PEN" /\ S.current_item # NoItem ->
              FinalizeCreatedItem(Log(R, "pen_end"), "pen", fail)
         [] S.tool \in {"LINE", "RECT", "ELLIPSE"} /\ S.shape_item # NoItem ->
              FinalizeCreatedItem(Log(R, ShapeKind(S.tool) \o "_end"),
                                  "shape", fail)
         [] OTHER -> [R EXCEPT !.press_pos = NoPos,
                               !.move_old_positions = << >>,
                               !.grabber = NoItem]

\* scene.py:649 mouseReleaseEvent: the button goes up.  A finished PEN or
\* shape item is pushed as an already-present Add and item_created is
\* emitted, which may start an auto flow; the gesture state is reset when
\* the handlers of the signal have returned.  These two branches return
\* without the super() call, so an item that grabbed the mouse keeps it; the
\* view ends its rubber band in every case.
MouseReleaseEvent(S, fail) ==
    LET R == [S EXCEPT !.buttonDown = FALSE, !.pointer = 0,
                       !.rubberBand = FALSE]
    IN CASE S.tool = "PEN" /\ S.current_item # NoItem ->
              FinalizeCreatedItem(
                  UndoStackPush(Log(R, "pen_end"),
                                AddItemCommand(S.current_item, TRUE)),
                  "pen", fail)
         [] S.tool \in {"LINE", "RECT", "ELLIPSE"} /\ S.shape_item # NoItem ->
              IF ShapeEndRaises(S)
              THEN [R EXCEPT !.ended.trigger = "release",
                             !.ended.how = "raise"]
              ELSE FinalizeCreatedItem(
                       UndoStackPush(Log(R, ShapeKind(S.tool) \o "_end"),
                                     AddItemCommand(S.shape_item, TRUE)),
                       "shape", fail)
         [] S.tool = "SELECT" /\ S.press_pos # NoPos ->
              LET T == SelectRelease(S)
              IN QtMouseRelease([T EXCEPT !.buttonDown = FALSE, !.pointer = 0])
         [] OTHER -> QtMouseRelease(R)

\* generation_catalog.py:12 create_generation_item: the kinds of the items
\* it builds, none for an id it does not know.
CreateGenerationItem(category, item_id) ==
    CASE category = "Porte" /\ item_id = "door_small" -> << "rect", "ellipse" >>
      [] category = "Porte" /\ item_id = "door_double" -> << "rect", "rect" >>
      [] category = "Porte" /\ item_id = "door_round" -> << "rect", "ellipse" >>
      [] category = "Roue" /\ item_id = "wheel_small" -> << "ellipse" >>
      [] category = "Roue" /\ item_id = "wheel_big" -> << "ellipse" >>
      [] category = "Roue" /\ item_id = "wheel_spoked" ->
             << "ellipse", "line", "line" >>
      [] category = "Carrosserie" /\ item_id = "body_compact" -> << "rect", "rect" >>
      [] category = "Carrosserie" /\ item_id = "body_sedan" -> << "rect", "rect" >>
      [] category = "Carrosserie" /\ item_id = "body_truck" -> << "rect", "rect" >>
      [] OTHER -> << >>

\* assistant_panel.py:70 the (category, item_id) pairs the panel emits
PanelCatalog ==
    { << "Porte", "porte_rayure" >>, << "Porte", "porte_arrondie" >>,
      << "Roue", "jante_foncee" >>, << "Roue", "jante_claire" >>,
      << "Carrosserie", "carrosserie_bleue" >>,
      << "Carrosserie", "carrosserie_rouge" >>,
      << "Carrosserie", "carrosserie_verte" >> }

\* editor.py:400-411: the insertion loop from the k-th kind on, with the
\* objects ids; a failure at k raises in the push of the k-th item.
RECURSIVE GenLoop(_, _, _, _, _)
GenLoop(S, kinds, ids, k, failAt) ==
    IF k > Len(kinds) THEN S
    ELSE LET A == [S EXCEPT !.item = Generated(S, ids[k], kinds[k])]
         IN IF k = failAt THEN A
            ELSE GenLoop(UndoStackPush(A, AddItemCommand(ids[k], TRUE)),
                         kinds, ids, k + 1, failAt)

\* editor.py:390 on_suggestion, the slot of GenerationPanel.suggestion_chosen
OnSuggestion(S, category, item_id, failAt) ==
    LET kinds == CreateGenerationItem(category, item_id)
        ids == LowestN(Free(S.item), Len(kinds))
        L == GenLoop(UndoStackBeginMacro(S), kinds, ids, 1, failAt)
    IN IF failAt \in 1..Len(kinds) THEN L
       ELSE Log(UndoStackEndMacro(L), "gen_add")

\* ------------------------------------------------------------------ codec
\* dict.get(key, default)
Get(data, key, default) == IF key \in DOMAIN data THEN data[key] ELSE default

\* data[key] of a dict without the key raises KeyError, which the decoders
\* do not catch: the call ends with the exception instead of a result.
KeyError(key) == [error |-> "KeyError", key |-> key]
IsRaise(r) == "error" \in DOMAIN r

\* type(item).__name__ (serialization.py:64, scene.py:143)
TypeName(kind) ==
    CASE kind = "line" -> "QGraphicsLineItem"
      [] kind = "rect" -> "QGraphicsRectItem"
      [] kind = "ellipse" -> "QGraphicsEllipseItem"
      [] kind = "path" -> "QGraphicsPathItem"
      [] kind = "polygon" -> "QGraphicsPolygonItem"
      [] OTHER -> kind

\* hasattr(item, "brush"): QGraphicsLineItem has a pen and no brush.
HasBrush(it) == it.kind # "line"

\* serialization.py:55-61: the fill of the record.
CodecFill(it) ==
    IF HasBrush(it) /\ it.brush.style # "NoBrush" /\ it.brush.alpha # 0
    THEN it.brush.color
    ELSE "none"

\* serialization.py:90-96: the elements of a path, the first a MoveTo.
CodecPathElems(geom) ==
    [k \in 1..Len(geom) |->
        [x |-> geom[k], etype |-> IF k = 1 THEN "MoveTo" ELSE "LineTo"]]

\* serialization.py:149-153, scene.py:283-287: the points of the elements.
PathPoints(elems) == [k \in 1..Len(elems) |-> elems[k].x]

\* serialization.py:34 apply_fill_from (scene.py:233 _apply_fill_from)
ApplyFillFrom(it, fill) ==
    [it EXCEPT !.brush = IF fill = "none" THEN NoBrush ELSE SolidBrush(fill)]

\* serialization.py:47 serialize_item: the record of an item, None for a
\* kind without a branch.  The record has no opacity.
serialize_item(it) ==
    LET base == [type |-> TypeName(it.kind), pos |-> it.pos,
                 stroke |-> it.stroke, stroke_width |-> it.width,
                 fill |-> CodecFill(it), z |-> it.z]
        poly == base @@ ("polygon" :> it.geom)
    IN CASE it.kind = "line" -> base @@ ("line" :> it.geom)
         [] it.kind = "rect" -> base @@ ("rect" :> it.geom)
         [] it.kind = "ellipse" -> base @@ ("ellipse" :> it.geom)
         [] it.kind = "path" -> base @@ ("path_elems" :> CodecPathElems(it.geom))
         [] it.kind = "polygon" ->
              IF it.tag # None THEN poly @@ ("assistant_tag" :> it.tag)
              ELSE poly
         [] OTHER -> Nothing

\* serialization.py:115 deserialize_item: the item of a record, selectable
\* and movable, at the record's position and z; None for a type without a
\* branch and for a path without elements.  data["line"], data["rect"] and
\* data["ellipse"] are subscripts.
deserialize_item(data) ==
    LET t == Get(data, "type", None)
        pos == Get(data, "pos", 0)
        stroke == Get(data, "stroke", "#000000")
        width == Get(data, "stroke_width", 1)
        fill == Get(data, "fill", "none")
        elems == Get(data, "path_elems", << >>)
        pts == Get(data, "polygon", << >>)
        Made(kind, geom) ==
            SetPen([NewItem(kind) EXCEPT !.geom = geom], stroke, width)
        Placed(it) == [EnableInteractionFlags(it)
                         EXCEPT !.z = Get(data, "z", 0), !.pos = pos]
        poly == ApplyFillFrom(Made("polygon", pts), fill)
    IN CASE t = "QGraphicsLineItem" ->
              IF "line" \notin DOMAIN data THEN KeyError("line")
              ELSE Placed(Made("line", data.line))
         [] t = "QGraphicsRectItem" ->
              IF "rect" \notin DOMAIN data THEN KeyError("rect")
              ELSE Placed(ApplyFillFrom(Made("rect", data.rect), fill))
         [] t = "QGraphicsEllipseItem" ->
              IF "ellipse" \notin DOMAIN data THEN KeyError("ellipse")
              ELSE Placed(ApplyFillFrom(Made("ellipse", data.ellipse), fill))
         [] t = "QGraphicsPathItem" ->
              IF elems = << >> THEN Nothing
              ELSE Placed(Made("path", PathPoints(elems)))
         [] t = "QGraphicsPolygonItem" ->
              Placed(IF "assistant_tag" \in DOMAIN data
                     THEN [poly EXCEPT !.tag = data.assistant_tag]
                     ELSE poly)
         [] OTHER -> Nothing

\* ------------------------------------------------------ scene: clipboard
\* The clipboard text is a JSON object, here with an "items" list, or text
\* for which json.loads or data.get raises (scene.py:410-415).
ClipboardJson(records) == [json |-> TRUE, items |-> records]
ClipboardOther == [json |-> FALSE, items |-> << >>]

\* The item kinds scene.py:152-180 has a branch for.
SceneSupported == {"line", "rect", "ellipse", "path"}

\* scene.py:134-139: the fill of the record; the brush's alpha is not read.
SceneFill(it) ==
    IF HasBrush(it) /\ it.brush.style # "NoBrush" THEN it.brush.color
    ELSE "none"

\* scene.py:171-176: the elements of a path with int(e.type), 0 for the
\* first (MoveToElement) and 1 for the others (LineToElement).
ScenePathElems(geom) ==
    [k \in 1..Len(geom) |-> [x |-> geom[k], etype |-> IF k = 1 THEN 0 ELSE 1]]

\* scene.py:121 _serialize_item: the record of an item, None for a kind
\* without a branch.  The record has no z.
SerializeItem(it) ==
    LET base == [type |-> TypeName(it.kind), pos |-> it.pos,
                 stroke |-> it.stroke, stroke_width |-> it.width,
                 fill |-> SceneFill(it)]
    IN CASE it.kind = "line" -> base @@ ("line" :> it.geom)
         [] it.kind = "rect" -> base @@ ("rect" :> it.geom)
         [] it.kind = "ellipse" -> base @@ ("ellipse" :> it.geom)
         [] it.kind = "path" -> base @@ ("path_elems" :> ScenePathElems(it.geom))
         [] OTHER -> Nothing

\* scene.py:242 _deserialize_item: the item of a record, selectable and
\* movable, at the record's position; None for a type without a branch and
\* for a path without elements.  data["type"], data["pos"] and the geometry
\* key are subscripts, which raise KeyError for a key the record lacks.
DeserializeItem(data) ==
    LET stroke == Get(data, "stroke", "#000000")
        width == Get(data, "stroke_width", 1)
        fill == Get(data, "fill", "none")
        Made(kind, geom) ==
            SetPen([NewItem(kind) EXCEPT !.geom = geom], stroke, width)
        Placed(it) == [EnableInteractionFlags(it) EXCEPT !.pos = data.pos]
    IN IF "type" \notin DOMAIN data THEN KeyError("type")
       ELSE IF "pos" \notin DOMAIN data THEN KeyError("pos")
       ELSE CASE data.type = "QGraphicsLineItem" ->
                   IF "line" \notin DOMAIN data THEN KeyError("line")
                   ELSE Placed(Made("line", data.line))
              [] data.type = "QGraphicsRectItem" ->
                   IF "rect" \notin DOMAIN data THEN KeyError("rect")
                   ELSE Placed(ApplyFillFrom(Made("rect", data.rect), fill))
              [] data.type = "QGraphicsEllipseItem" ->
                   IF "ellipse" \notin DOMAIN data THEN KeyError("ellipse")
                   ELSE Placed(ApplyFillFrom(Made("ellipse", data.ellipse),
                                             fill))
              [] data.type = "QGraphicsPathItem" ->
                   IF "path_elems" \notin DOMAIN data
                   THEN KeyError("path_elems")
                   ELSE IF data.path_elems = << >> THEN Nothing
                   ELSE Placed(Made("path", PathPoints(data.path_elems)))
              [] OTHER -> Nothing

\* A decoder's result is an item (not None, not an exception), and the
\* records the scene's decoder makes an item of.
IsItem(r) == "kind" \in DOMAIN r
Decodable(d) == IsItem(DeserializeItem(d))

\* A set of items as the list selectedItems() returns, lowest object first.
AsList(set) == LowestN(set, Cardinality(set))

\* The records of the items of a list, the None ones dropped
\* (scene.py:370-371 and 451-452).
RECURSIVE Payload(_, _, _)
Payload(its, list, k) ==
    IF k > Len(list) THEN << >>
    ELSE LET d == SerializeItem(its[list[k]])
         IN (IF d = Nothing THEN << >> ELSE << d >>) \o Payload(its, list, k + 1)

\* scene.py:362 copy_selection
CopySelection(S) ==
    Log([S EXCEPT !.clipboard =
            ClipboardJson(Payload(S.item, AsList(SelectedItems(S.item)), 1))],
        "copy")

\* scene.py:388-389: one Remove per selected item
RECURSIVE RemoveEach(_, _, _)
RemoveEach(S, list, k) ==
    IF k > Len(list) THEN S
    ELSE RemoveEach(UndoStackPush(S, RemoveItemCommand(S.item, list[k])),
                    list, k + 1)

\* A cut whose removal loop runs inside the test of the logger: without a
\* logger the selection is copied and stays in the scene.
CutSelectionWhenLogged(S) ==
    LET C == CopySelection(S)
    IN IF HasLogger(S)
       THEN Log(RemoveEach(C, AsList(SelectedItems(C.item)), 1), "cut")
       ELSE C

\* scene.py:381 cut_selection
CutSelection(S) ==
    LET C == CopySelection(S)
    IN Log(RemoveEach(C, AsList(SelectedItems(C.item)), 1), "cut")

\* scene.py:418-433 and 456-467: each record is decoded, moved by the
\* offset, added to the scene as the next object of ids and pushed as an
\* already-present Add.  The result is the state and the objects used.
RECURSIVE InsertEach(_, _, _, _, _)
InsertEach(S, records, ids, k, used) ==
    IF k > Len(records) THEN [state |-> S, new |-> used, raised |-> FALSE]
    ELSE LET it == DeserializeItem(records[k])
             i == ids[Len(used) + 1]
             A == [S EXCEPT !.item[i] = [it EXCEPT !.pos = @ + PasteOffset,
                                                   !.scene = TRUE]]
         IN IF it = Nothing THEN InsertEach(S, records, ids, k + 1, used)
            ELSE IF IsRaise(it)
            THEN [state |-> S, new |-> used, raised |-> TRUE]
            ELSE InsertEach(UndoStackPush(A, AddItemCommand(i, TRUE)),
                            records, ids, k + 1, Append(used, i))

\* The records another program's text may hold: a rect and an ellipse as
\* the encoders write them, a record of a type without a branch, and a rect
\* without its geometry.
ForeignRect == [type |-> "QGraphicsRectItem", pos |-> 1, stroke |-> "#ff0000",
                stroke_width |-> PenWidth, fill |-> "none",
                rect |-> << 0, 1, 2, 1 >>]
ForeignEllipse == [type |-> "QGraphicsEllipseItem", pos |-> 0,
                   stroke |-> "#000000", stroke_width |-> PenWidth,
                   fill |-> "#ff0000", ellipse |-> << 0, 1, 2, 1 >>]
ForeignText == [type |-> "QGraphicsTextItem", pos |-> 0]

\* The texts another program may leave on the clipboard: text that is not
\* JSON, the JSON object {} without "items", and objects with an "items"
\* list, one of them with a rect without its geometry between two records
\* as the encoders write them.
ForeignClipboards ==
    { ClipboardOther,
      [json |-> TRUE],
      ClipboardJson(<< ForeignRect, ForeignText, ForeignEllipse >>),
      ClipboardJson(<< [ForeignText EXCEPT !.type = "QGraphicsRectItem"] >>),
      ClipboardJson(<< ForeignEllipse,
                       [ForeignText EXCEPT !.type = "QGraphicsRectItem"],
                       ForeignRect >>) }

\* A paste that selects the new items without deselecting the others.
PasteAddingToSelection(S) ==
    IF ~S.clipboard.json THEN S
    ELSE LET records == Get(S.clipboard, "items", << >>)
             r == InsertEach(S, records, LowestN(Free(S.item), Len(records)),
                             1, << >>)
         IN [r.state EXCEPT !.item =
                [i \in Items |-> IF i \in Range(r.new)
                                 THEN [r.state.item[i] EXCEPT !.selected = TRUE]
                                 ELSE r.state.item[i]]]

\* A paste that groups the Adds of the items it inserts in one macro.
PasteInMacro(S) ==
    IF ~S.clipboard.json THEN S
    ELSE LET records == Get(S.clipboard, "items", << >>)
             r == InsertEach(UndoStackBeginMacro(S), records,
                             LowestN(Free(S.item), Len(records)), 1, << >>)
             cleared == ClearSelection(r.state.item)
         IN IF r.raised
            THEN [r.state EXCEPT !.ended.trigger = "paste",
                                 !.ended.how = "raise"]
            ELSE Log([UndoStackEndMacro(r.state) EXCEPT !.item =
                         [i \in Items |->
                             IF i \in Range(r.new)
                             THEN [cleared[i] EXCEPT !.selected = TRUE]
                             ELSE cleared[i]]],
                     "paste")

\* scene.py:394 paste
Paste(S) ==
    IF ~S.clipboard.json THEN S
    ELSE LET records == Get(S.clipboard, "items", << >>)
             r == InsertEach(S, records, LowestN(Free(S.item), Len(records)),
                             1, << >>)
             cleared == ClearSelection(r.state.item)
         IN IF r.raised
            THEN [r.state EXCEPT !.ended.trigger = "paste",
                                 !.ended.how = "raise"]
            ELSE Log([r.state EXCEPT !.item =
                         [i \in Items |->
                             IF i \in Range(r.new)
                             THEN [cleared[i] EXCEPT !.selected = TRUE]
                             ELSE cleared[i]]],
                     "paste")

\* A duplication that also announces each copy with item_created.
DuplicateEmitting(S) ==
    LET payload == Payload(S.item, AsList(SelectedItems(S.item)), 1)
        r == InsertEach(S, payload, LowestN(Free(S.item), Len(payload)),
                        1, << >>)
    IN [r.state EXCEPT !.item =
           [i \in Items |-> IF i \in Range(r.new)
                            THEN [r.state.item[i] EXCEPT !.created = @ + 1]
                            ELSE r.state.item[i]]]

\* A duplication that also switches to the SELECT tool, for the copies it
\* made to be moved at once.
DuplicateSelectingTool(S) ==
    LET payload == Payload(S.item, AsList(SelectedItems(S.item)), 1)
    IN IF payload = << >> THEN S
       ELSE Log([InsertEach(S, payload, LowestN(Free(S.item), Len(payload)),
                            1, << >>).state EXCEPT !.tool = "SELECT"],
                "duplicate")

\* scene.py:445 duplicate_selection
DuplicateSelection(S) ==
    LET payload == Payload(S.item, AsList(SelectedItems(S.item)), 1)
    IN IF payload = << >> THEN S
       ELSE Log(InsertEach(S, payload, LowestN(Free(S.item), Len(payload)),
                           1, << >>).state,
                "duplicate")

\* --------------------------------------------------------- initial state
\* scene.py:57 DrawingScene.__init__, controller.py:51 __init__: an empty
\* scene with the SELECT tool, an empty undo stack, the auto mode off.  The
\* session is followed until its undo stack holds limit commands.
Constructed(limit) ==
    /\ item = [i \in Items |-> Blank]
    /\ tool = "SELECT"
    /\ current_item = NoItem
    /\ shape_item = NoItem
    /\ press_pos = NoPos
    /\ move_old_positions = EmptyMap
    /\ buttonDown = FALSE
    /\ grabber = NoItem
    /\ rubberBand = FALSE
    /\ pointer = 0
    /\ command_list = << >>
    /\ index = 0
    /\ macro_stack = << >>
    /\ clipboard = ClipboardOther
    /\ auto_enabled = FALSE
    /\ auto_suppressed = {}
    /\ ghost_items = << >>
    /\ flows = << >>
    /\ ended = [trigger |-> "none", choice |-> "none", how |-> "none",
                rejected |-> {}, raised |-> 0]
    /\ log_limit = limit
    /\ stroke_color = "#000000"
    /\ fill_color = None
    /\ logged = << >>
    /\ shape_start = NoPoint
    /\ scenePos = << 0, 0 >>
    /\ held = 0

\* No call of an encoder or a decoder is under study.
NoCall == [stage |-> "none", item |-> Blank, data |-> Nothing,
           scene_data |-> Nothing, out |-> Nothing, scene_out |-> Nothing]

\* The editor gives its scene and its controller an EventLogger
\* (editor.py:47, 61, 365); what it logs is not followed.
Start(limit) ==
    Constructed(limit) /\ codec = NoCall /\ logger = "EventLogger"

Init == Start(MaxLog)

\* ---------------------------------------------------------------- actions
\* An event reaches its handler when no suggestion dialog is open: the
\* dialog is modal (suggestion_dialog.py:23, controller.py:260 dlg.exec()).
\* With nested set, events are dispatched while a dialog is open too.
Dispatched(nested) == nested \/ flows = << >>

\* The toolbar, the panels and the shortcuts are used between two gestures
\* of the mouse, and a gesture is made with one button.
Idle(nested) == Dispatched(nested) /\ ~buttonDown

\* The failures a step that starts a flow, and one that ends it, may meet.
StartFailures(failing) ==
    IF failing THEN {NoFail, [at |-> "dialog", k |-> 0]} ELSE {NoFail}
EndFailures(failing, choice) ==
    IF ~failing THEN {NoFail}
    ELSE {NoFail, [at |-> "exec", k |-> 0], [at |-> "log", k |-> 0]}
         \cup (IF choice = "accept"
               THEN {[at |-> "push", k |-> k] : k \in 1..Len(ghost_items)}
               ELSE {})

\* The state N stays within the bounds of the model.
InBounds(N) ==
    /\ Len(N.flows) <= MaxFlows
    /\ Len(N.ghost_items) \in {0, NumEars}
    /\ \A k \in 1..Len(N.flows) : Len(N.flows[k].ghost) = NumEars
    /\ Len(N.command_list) <= log_limit
    /\ Len(N.macro_stack) <= MaxFlows
    /\ N.ended.raised <= MaxRaised
    /\ \A i \in Items : N.item[i].pos <= MaxPos + PasteOffset
    /\ \A k \in 1..Len(N.flows) : N.flows[k].events <= MaxNested
    /\ \A k \in 1..Len(N.macro_stack) : Len(N.macro_stack[k]) <= MaxLog

\* The state N, where the event was handled while the dialog of the
\* innermost flow was open.
During(N) ==
    IF flows = << >> THEN N
    ELSE [N EXCEPT !.flows[Len(flows)].events = @ + 1]

\* The step to the state N, garbage collected.
Step(N) == InBounds(N) /\ Becomes(Collect(N))

\* The step of an event: to the state N its handler leaves.
Handled(N) == Step(During(N))

Choices == {"accept", "ignore", "override", "cancel"}

\* Where the pointer stops during a gesture: at the press point, at the
\* threshold of scene.py:739 and beyond it.
PointerStops == {0} \cup (MoveEpsilon..MaxDelta)

SetToolAction(nested, tools) ==
    \E t \in tools \ {tool} :
        Idle(nested) /\ Handled(SetTool(State, t))

\* The quick palette of the editor (editor.py:166-170, 183 and 269) and its
\* "no fill" button (editor.py:259).  The swatches are buttons of the
\* toolbar, clicked between two gestures; with gesture set they are also
\* activated while a mouse button is held (from the keyboard).
SetStrokeColorAction(gesture) ==
    \E hex \in {"#000000", "#ff0000"} \ {stroke_color} :
        /\ IF gesture THEN Dispatched(FALSE) ELSE Idle(FALSE)
        /\ Handled(SetStrokeColor(State, hex))

SetFillColorAction(gesture) ==
    \E color \in {None, "#ff0000"} \ {fill_color} :
        /\ IF gesture THEN Dispatched(FALSE) ELSE Idle(FALSE)
        /\ Handled(SetFillColor(State, color))

MousePress(nested) ==
    \E target \in SceneItems(item) \cup {NoItem} :
        /\ Idle(nested)
        /\ tool \in {"PEN", "LINE", "RECT", "ELLIPSE"} => Free(item) # {}
        /\ Handled(MousePressEvent(State, target,
                                IF Free(item) = {} THEN NoItem
                                ELSE LowestN(Free(item), 1)[1]))

MouseMove(nested) ==
    \E p \in PointerStops, target \in SceneItems(item) \cup {NoItem},
       band \in SUBSET SceneItems(item) :
        /\ Dispatched(nested)
        /\ buttonDown
        /\ p # pointer
        /\ tool # "ERASER" => target = NoItem
        /\ band # {} => rubberBand
        /\ \A i \in band : item[i].enabled /\ item[i].selectable
        /\ LET N == MouseMoveEvent(State, p, target, band)
           IN /\ \A i \in Items : N.item[i].pos # item[i].pos
                                   => N.item[i].pos \in 0..MaxPos
              /\ Handled(N)

MouseRelease(nested, failing) ==
    \E fail \in StartFailures(failing) :
        /\ Dispatched(nested)
        /\ buttonDown
        /\ Handled(MouseReleaseEvent(State, fail))

Undo(nested) ==
    /\ Idle(nested)
    /\ CanUndo(Stack)
    /\ Handled(UndoStackUndo(State))

Redo(nested) ==
    /\ Idle(nested)
    /\ CanRedo(Stack)
    /\ Handled(UndoStackRedo(State))

Copy(nested) ==
    /\ Idle(nested)
    /\ Cardinality(SelectedItems(item)) <= MaxClip
    /\ Handled(CopySelection(State))

Cut(nested) ==
    /\ Idle(nested)
    /\ SelectedItems(item) # {}
    /\ Cardinality(SelectedItems(item)) <= MaxClip
    /\ Handled(CutSelection(State))

PasteAction(nested) ==
    /\ Idle(nested)
    /\ Cardinality(Free(item))
           >= Len(SelectSeq(Get(clipboard, "items", << >>), Decodable))
    /\ Handled(Paste(State))

\* Another program puts its text on the system clipboard.
ForeignCopy ==
    \E text \in ForeignClipboards :
        /\ Idle(FALSE)
        /\ Handled([State EXCEPT !.clipboard = text])

Duplicate(nested) ==
    /\ Idle(nested)
    /\ SelectedItems(item) # {}
    /\ Cardinality(SelectedItems(item)) <= MaxClip
    /\ Cardinality(Free(item)) >= Cardinality(SelectedItems(item))
    /\ Handled(DuplicateSelection(State))

ToggleAuto(nested) ==
    /\ Idle(nested)
    /\ Handled(SetAutoEnabled(State, ~auto_enabled))

ManualInvoke(nested, failing) ==
    \E fail \in StartFailures(failing) :
        /\ Idle(nested)
        /\ Handled(OnManualInvoke(State, fail))

GenerationChoice(nested) ==
    \E pair \in PanelCatalog :
        /\ Idle(nested)
        /\ Handled(OnSuggestion(State, pair[1], pair[2], 0))

DialogDecision(failing) ==
    \E choice \in Choices :
        \E fail \in EndFailures(failing, choice) :
            /\ flows # << >>
            /\ Step(Decide(State, choice, fail))

\* The strokes, the selection gestures and the shortcuts of the history.
Editing(nested, failing, tools) ==
    \/ SetToolAction(nested, tools)
    \/ MousePress(nested)
    \/ MouseMove(nested)
    \/ MouseRelease(nested, failing)
    \/ Undo(nested)
    \/ Redo(nested)

\* The assistant: its toggle, its button, its panel and its dialog.
Assistant(nested, failing) ==
    \/ ToggleAuto(nested)
    \/ ManualInvoke(nested, failing)
    \/ GenerationChoice(nested)
    \/ DialogDecision(failing)

\* The clipboard shortcuts.
Clipboard(nested) ==
    \/ Copy(nested)
    \/ Cut(nested)
    \/ PasteAction(nested)
    \/ Duplicate(nested)

\* The editor as the user drives it: the dialog is modal and nothing
\* raises.  LINE and RECT go through the code of ELLIPSE (scene.py:630 and
\* 687) and are left to it.
Next ==
    \/ Editing(FALSE, FALSE, {"SELECT", "PEN", "ERASER", "ELLIPSE"})
    \/ Assistant(FALSE, FALSE)
Spec == Init /\ [][Next]_vars

\* Sessions of drawing and erasing where the dialog, the logger and a push
\* may raise.
NextFail ==
    \/ Editing(FALSE, TRUE, {"ERASER", "ELLIPSE"})
    \/ Assistant(FALSE, TRUE)
SpecFail == Init /\ [][NextFail]_vars

\* Sessions of drawing and erasing where events are dispatched while the
\* dialog is open.
NextReentrant ==
    \/ Editing(TRUE, FALSE, {"PEN", "ERASER", "ELLIPSE"})
    \/ Assistant(TRUE, FALSE)
SpecReentrant == Init /\ [][NextReentrant]_vars

\* Sessions with the clipboard and without the assistant.
NextClipboard ==
    \/ Editing(FALSE, FALSE, {"SELECT", "ERASER", "ELLIPSE"})
    \/ Clipboard(FALSE)
SpecClipboard == Init /\ [][NextClipboard]_vars

\* Sessions of clicks with every way an item enters the scene: drawing, the
\* clipboard, the assistant's commit and the generation panel.  The pointer
\* is not moved while a button is held (drags are followed by the other
\* specifications).
NextClicks ==
    \/ SetToolAction(FALSE, {"SELECT", "ELLIPSE"})
    \/ MousePress(FALSE)
    \/ MouseRelease(FALSE, FALSE)
    \/ Undo(FALSE)
    \/ Redo(FALSE)
    \/ Assistant(FALSE, FALSE)
    \/ Clipboard(FALSE)
SpecClicks == Init /\ [][NextClicks]_vars

\* Sessions of drawing and moving, followed for one more command.
NextMove == Editing(FALSE, FALSE, {"SELECT", "PEN"})
SpecMove == Start(MaxLog + 1) /\ [][NextMove]_vars

\* Sessions of drawing and erasing, followed for two more commands.
NextErase == Editing(FALSE, FALSE, {"ERASER", "PEN"})
SpecErase == Start(MaxLog + 2) /\ [][NextErase]_vars

\* Sessions of clicks with the clipboard, which other programs write to
\* too, followed for one more command.
NextPaste ==
    \/ SetToolAction(FALSE, {"SELECT", "ELLIPSE"})
    \/ MousePress(FALSE)
    \/ MouseRelease(FALSE, FALSE)
    \/ Undo(FALSE)
    \/ Redo(FALSE)
    \/ Clipboard(FALSE)
    \/ ForeignCopy
SpecPaste == Start(MaxLog + 1) /\ [][NextPaste]_vars

\* Sessions of clicks with the tools, the colours, the clipboard and the
\* assistant's suggestions, in an editor built with a logger whose events
\* are kept and in one built without a logger (DrawingScene(logger=None),
\* template_builder.py:36).  The history shortcuts and the generation panel
\* are left to the other specifications.
InitLogger ==
    /\ Constructed(MaxLog)
    /\ codec = NoCall
    /\ logger \in {None, "Recording"}
NextLogger ==
    \/ SetToolAction(FALSE, {"SELECT", "LINE", "ELLIPSE"})
    \/ SetStrokeColorAction(FALSE)
    \/ SetFillColorAction(FALSE)
    \/ MousePress(FALSE)
    \/ MouseRelease(FALSE, FALSE)
    \/ ToggleAuto(FALSE)
    \/ ManualInvoke(FALSE, FALSE)
    \/ DialogDecision(FALSE)
    \/ Clipboard(FALSE)
SpecLogger == InitLogger /\ [][NextLogger]_vars

\* Sessions of drawing with the four drawing tools and the two colours,
\* which may change during a gesture too.
NextStyle ==
    \/ SetToolAction(FALSE, {"PEN", "LINE", "RECT", "ELLIPSE"})
    \/ SetStrokeColorAction(TRUE)
    \/ SetFillColorAction(TRUE)
    \/ MousePress(FALSE)
    \/ MouseRelease(FALSE, FALSE)
SpecStyle == Init /\ [][NextStyle]_vars

\* The points of the scene a shape gesture goes through: a small grid, and
\* the two points (50,80) and (10,20).
MaxPoint == 1
MaxHeld == 1
Points ==
    ((0..MaxPoint) \X (0..MaxPoint)) \cup {<< 50, 80 >>, << 10, 20 >>}

\* The current state, with the event that is delivered at the point q.
At(q) == [State EXCEPT !.scenePos = q]

ShapePress ==
    \E q \in Points :
        /\ Idle(FALSE)
        /\ tool \in {"LINE", "RECT", "ELLIPSE"}
        /\ Free(item) # {}
        /\ Handled(MousePressEvent(At(q), NoItem, LowestN(Free(item), 1)[1]))

ShapeMove ==
    \E q \in Points \ {scenePos} :
        /\ buttonDown
        /\ tool \in {"LINE", "RECT", "ELLIPSE"}
        /\ Handled(MouseMoveEvent(At(q), pointer, NoItem, {}))

\* Sessions of drawing lines, rects and ellipses where the points of the
\* gestures are followed, for one command.
NextShape ==
    \/ SetToolAction(FALSE, {"LINE", "RECT", "ELLIPSE"})
    \/ ShapePress
    \/ ShapeMove
    \/ MouseRelease(FALSE, FALSE)
SpecShape == Start(1) /\ [][NextShape]_vars

\* ------------------------------------------- the encoders and decoders
\* The colours of the editor's palette (editor.py:166-170), by name().
Palette == {"#000000", "#ff0000"}

\* The geometries the items are given.
Geoms(kind) ==
    CASE kind = "path" -> {<< 0 >>, << 0, 1 >>}
      [] kind = "polygon" -> {<< 0, 1, 0 >>, << 1, 2, 1 >>}
      [] OTHER -> {<< 0, 0, 0, 0 >>, << 0, 1, 2, 1 >>}

\* The items the tools draw (scene.py:507-563): a pen of the current stroke
\* colour, the current fill for a rect or an ellipse, anywhere a drag may
\* have put them, selected or not.
DrawnItems ==
    { [EnableInteractionFlags(SetPen(NewItem(kind), stroke, PenWidth))
         EXCEPT !.scene = TRUE, !.pos = pos, !.geom = geom, !.brush = brush,
                !.selected = sel] :
        kind \in {"path", "line", "rect", "ellipse"}, stroke \in Palette,
        pos \in 0..MaxPos, geom \in Geoms("line") \cup Geoms("path"),
        brush \in {NoBrush} \cup {SolidBrush(c) : c \in Palette},
        sel \in BOOLEAN }

WellDrawn(it) ==
    /\ it.geom \in Geoms(it.kind)
    /\ it.kind \in {"path", "line"} => it.brush = NoBrush

\* The cat ears (suggestions.py:57-73), previewed as ghosts or committed.
EarItems ==
    { IF ghost THEN MarkGhost(ear) ELSE ear :
        ghost \in BOOLEAN,
        ear \in { [EnableInteractionFlags(
                       SetPen(NewItem("polygon"), "#000000", PenWidth))
                     EXCEPT !.scene = TRUE, !.tag = TagCatEar, !.pos = pos,
                            !.geom = geom] :
                  pos \in 0..MaxPos, geom \in Geoms("polygon") } }

CodecItems == {it \in DrawnItems : WellDrawn(it)} \cup EarItems

\* Records that did not come from an encoder: text another program put
\* on the clipboard, or a template file edited by hand.  Their type is
\* unknown or absent, or their position or geometry is missing.
ForeignRecords ==
    { [type |-> "QGraphicsTextItem", pos |-> 0],
      [pos |-> 0, rect |-> << 0, 1, 2, 1 >>],
      [type |-> "QGraphicsLineItem", pos |-> 0],
      [type |-> "QGraphicsRectItem", pos |-> 0, fill |-> "#ff0000"],
      [type |-> "QGraphicsEllipseItem", pos |-> 0],
      [type |-> "QGraphicsPathItem", pos |-> 0],
      [type |-> "QGraphicsPolygonItem", pos |-> 0],
      [type |-> "QGraphicsRectItem", rect |-> << 0, 1, 2, 1 >>] }

\* The call under study starts from an item to encode or a record to decode.
InitCodec ==
    /\ Constructed(MaxLog)
    /\ logger = "EventLogger"
    /\ \/ \E it \in CodecItems :
              codec = [NoCall EXCEPT !.stage = "item", !.item = it]
       \/ \E d \in ForeignRecords :
              codec = [NoCall EXCEPT !.stage = "record", !.data = d,
                                     !.scene_data = d]

\* The item is encoded by serialize_item and by _serialize_item.
CodecEncode ==
    /\ codec.stage = "item"
    /\ codec' = [codec EXCEPT !.stage = "encoded",
                              !.data = serialize_item(codec.item),
                              !.scene_data = SerializeItem(codec.item)]
    /\ UNCHANGED << item, tool, current_item, shape_item, press_pos,
                    move_old_positions, buttonDown, grabber, rubberBand,
                    pointer, command_list, index, macro_stack, clipboard,
                    auto_enabled, auto_suppressed, ghost_items, flows, ended,
                    log_limit, stroke_color, fill_color, logger, logged,
                    shape_start, scenePos, held >>

\* Each record is decoded by the decoder of its encoder; the callers drop a
\* None record before they decode (template_builder.py:180, scene.py:371).
CodecDecode ==
    /\ codec.stage \in {"encoded", "record"}
    /\ codec' = [codec EXCEPT
                    !.stage = IF codec.stage = "encoded" THEN "decoded"
                              ELSE "read",
                    !.out = IF codec.data = Nothing THEN Nothing
                            ELSE deserialize_item(codec.data),
                    !.scene_out = IF codec.scene_data = Nothing THEN Nothing
                                  ELSE DeserializeItem(codec.scene_data)]
    /\ UNCHANGED << item, tool, current_item, shape_item, press_pos,
                    move_old_positions, buttonDown, grabber, rubberBand,
                    pointer, command_list, index, macro_stack, clipboard,
                    auto_enabled, auto_suppressed, ghost_items, flows, ended,
                    log_limit, stroke_color, fill_color, logger, logged,
                    shape_start, scenePos, held >>

NextCodec == CodecEncode \/ CodecDecode
SpecCodec == InitCodec /\ [][NextCodec]_vars

\* A gesture made with more than one button, and with the toolbar used from
\* the keyboard meanwhile: a further button goes down while one is held
\* (every handler of scene.py:491-557 takes any event.button()), a tool is
\* chosen while a button is held, and each button that goes up is a release
\* event of its own.
PressAgain(nested) ==
    \E target \in SceneItems(item) \cup {NoItem} :
        /\ Dispatched(nested)
        /\ buttonDown
        /\ held < MaxHeld
        /\ Free(item) # {}
        /\ Handled([MousePressEvent(State, target, LowestN(Free(item), 1)[1])
                      EXCEPT !.held = held + 1])

SetToolHeld(nested, tools) ==
    \E t \in tools \ {tool} :
        /\ Dispatched(nested)
        /\ buttonDown
        /\ Handled(SetTool(State, t))

ToggleAutoHeld(nested) ==
    /\ Dispatched(nested)
    /\ buttonDown
    /\ Handled(SetAutoEnabled(State, ~auto_enabled))

ButtonRelease(nested) ==
    /\ Dispatched(nested)
    /\ buttonDown
    /\ Handled([MouseReleaseEvent(State, NoFail)
                  EXCEPT !.buttonDown = held > 0,
                         !.held = IF held > 0 THEN held - 1 ELSE 0])

NextButtons ==
    \/ SetToolAction(FALSE, {"PEN", "ELLIPSE"})
    \/ SetToolHeld(FALSE, {"PEN", "ELLIPSE"})
    \/ MousePress(FALSE)
    \/ PressAgain(FALSE)
    \/ MouseMove(FALSE)
    \/ ButtonRelease(FALSE)
    \/ Undo(FALSE)
    \/ Redo(FALSE)
SpecButtons == Init /\ [][NextButtons]_vars

\* The same gestures with the auto mode, where the events are dispatched
\* while the dialog of a suggestion is open as well.
NextHeld ==
    \/ SetToolAction(TRUE, {"SELECT", "ELLIPSE"})
    \/ SetToolHeld(TRUE, {"SELECT", "ELLIPSE"})
    \/ ToggleAuto(TRUE)
    \/ ToggleAutoHeld(TRUE)
    \/ MousePress(TRUE)
    \/ PressAgain(TRUE)
    \/ ButtonRelease(TRUE)
    \/ DialogDecision(FALSE)
    \/ Undo(TRUE)
SpecHeld == Init /\ [][NextHeld]_vars

\* Sessions where the SELECT tool, undo, redo and cut are used while the
\* dialog of a suggestion is open.
NextPreview ==
    \/ SetToolAction(TRUE, {"SELECT", "ELLIPSE"})
    \/ MousePress(TRUE)
    \/ MouseMove(TRUE)
    \/ MouseRelease(TRUE, FALSE)
    \/ Undo(TRUE)
    \/ Redo(TRUE)
    \/ ManualInvoke(TRUE, FALSE)
    \/ DialogDecision(FALSE)
    \/ Cut(TRUE)
SpecPreview == Init /\ [][NextPreview]_vars

\* ----------------------------------------------------------------- claims
\* The items that have an Add entry in the Command Log.
RECURSIVE AddedBy(_)
RECURSIVE AddedByAll(_, _)
AddedByAll(cs, k) ==
    IF k > Len(cs) THEN {} ELSE AddedBy(cs[k]) \cup AddedByAll(cs, k + 1)
AddedBy(c) ==
    CASE c.type = "Add" -> {c.item}
      [] c.type = "Macro" -> AddedByAll(c.children, 1)
      [] OTHER -> {}
CommittedItems ==
    AddedByAll(command_list, 1)
    \cup UNION {AddedByAll(macro_stack[k], 1) : k \in 1..Len(macro_stack)}

\* The items of the scene in ghost state that no Add entry commits.
UncommittedGhosts ==
    {i \in SceneItems(item) : IsGhostLook(item[i]) /\ i \notin CommittedItems}

NonAccept == {"ignore", "override", "cancel"}

\* The flow whose dialog is open, innermost first.
PendingFlow == flows[Len(flows)]

\* C1: when a suggestion flow that inserted ghosts terminates, by a return
\* or by an exception at any step after the insertion, no item of the scene
\* is in ghost state unless an Add entry of the Command Log commits it.
C1_NoGhostLeftBehind ==
    ended.how # "none" => UncommittedGhosts = {}

\* C2: when a flow that reached Proposed ends with ignore, override or
\* cancel, its ghosts are out of the scene, the GhostSet is empty, the live
\* items are those of before the flow and the Command Log (entries, cursor,
\* redo tail) is what it was before the flow.
C2_NonAcceptStep ==
    ended'.choice \in NonAccept =>
        /\ \A i \in Range(PendingFlow.ghost) : ~item'[i].scene
        /\ ghost_items' = << >>
        /\ SceneItems(item') = PendingFlow.before.live
        /\ Stack' = PendingFlow.before.stack
C2_NonAcceptRestores == [][C2_NonAcceptStep]_vars

\* C2 witness: a flow was cancelled while the Command Log had a redo tail.
C2_Witness ==
    /\ ended.choice = "cancel"
    /\ ended.how = "return"
    /\ index < Len(command_list)

\* C3: when a flow that reached Proposed ends with accept and no other
\* event was dispatched during the preview, every item it previewed is
\* live, enabled, selectable, movable and opaque, the GhostSet is empty,
\* exactly one undo unit was added, one undo removes all of the items and a
\* following redo makes all of them live again.
C3_AcceptStep ==
    ended'.choice = "accept" =>
        LET G == Range(PendingFlow.ghost)
            u == StackUndo(Stack', item')
            r == StackRedo(u.stack, u.items)
        IN /\ \A i \in G : /\ item'[i].scene
                           /\ item'[i].enabled
                           /\ item'[i].selectable
                           /\ item'[i].movable
                           /\ item'[i].opacity = FullOpacity
           /\ ghost_items' = << >>
           /\ index' = index + 1
           /\ Len(command_list') = index + 1
           /\ SubSeq(command_list', 1, index) = SubSeq(command_list, 1, index)
           /\ CmdItems(command_list'[index']) = G
           /\ \A i \in G : ~u.items[i].scene
           /\ \A i \in Items \ G : u.items[i] = item'[i]
           /\ \A i \in G : r.items[i].scene
           /\ r.stack = Stack'
C3_AcceptCommits == [][C3_AcceptStep]_vars

\* C3 witness: an auto flow was accepted and its two ears are live on top of
\* the entry of the ellipse.
C3_Witness ==
    /\ ended.choice = "accept"
    /\ ended.trigger = "auto"
    /\ index = 2
    /\ command_list[2].type = "Macro"
    /\ Len(command_list[2].children) = NumEars
    /\ \A i \in CmdItems(command_list[2]) : item[i].scene /\ item[i].movable

\* C4: with events dispatched while the preview is pending, the flow that
\* resumes acts on the GhostSet it created: on accept the items committed
\* are exactly those it previewed and they are live; on non-accept it
\* removes its own ghosts only.
C4_ResumeStep ==
    ended'.how = "return" =>
        LET G == Range(PendingFlow.ghost)
        IN IF ended'.choice = "accept"
           THEN /\ index' > 0
                /\ CmdItems(command_list'[index']) = G
                /\ \A i \in G : item'[i].scene
           ELSE \A i \in SceneItems(item) \ G : item'[i].scene
C4_ActsOnOwnGhostSet == [][C4_ResumeStep]_vars

\* C5: in every reachable state every item of the scene in ghost state
\* (disabled, reduced opacity, uncommitted) belongs to the controller's
\* current GhostSet.
C5_OneGhostSet ==
    UncommittedGhosts \subseteq Range(ghost_items)

\* C6: once an operation that opens a macro has terminated, with or without
\* a failure, the Command Log has no open macro.
C6_NoMacroLeftOpen ==
    flows = << >> => macro_stack = << >>

\* C7: a suggestion that an auto flow proposed and the user did not accept
\* is not proposed by an auto flow again.
C7_RejectedNotProposedAgain ==
    \A k \in 1..Len(flows) :
        flows[k].trigger = "auto" =>
            flows[k].proposal.suggestion \notin ended.rejected

\* Which items are live, and where every item is.
Presence(its) == [i \in Items |-> << its[i].scene, its[i].pos >>]

\* C8: in every reachable state between two gestures, redoing the command
\* under the cursor after undoing it, and undoing the command after the
\* cursor after redoing it, restore the state, as to which items are live
\* and where every item is.
C8_UndoRedoInverse ==
    ~buttonDown =>
    /\ CanUndo(Stack) =>
          LET c == command_list[index]
          IN Presence(CmdRedo(CmdUndo(item, c), c)) = Presence(item)
    /\ CanRedo(Stack) =>
          LET c == command_list[index + 1]
          IN Presence(CmdUndo(CmdRedo(item, c), c)) = Presence(item)

\* C9: a macro of N pushes is one undo unit: the undo that crosses it leaves
\* none of its N items in the scene and the redo that crosses it leaves all
\* of them in the scene, in one step each.
C9_MacroStep ==
    /\ (command_list' = command_list /\ index' = index - 1
        /\ command_list[index].type = "Macro")
          => \A i \in CmdItems(command_list[index]) : ~item'[i].scene
    /\ (command_list' = command_list /\ index' = index + 1
        /\ command_list[index'].type = "Macro")
          => \A i \in CmdItems(command_list[index']) : item'[i].scene
C9_MacroAtomic == [][C9_MacroStep]_vars

\* C9 witness: the macro of an accepted suggestion was undone, and none of
\* its two ears is in the scene.
C9_Witness ==
    /\ index < Len(command_list)
    /\ command_list[index + 1].type = "Macro"
    /\ Len(command_list[index + 1].children) = NumEars
    /\ \A i \in CmdItems(command_list[index + 1]) : ~item[i].scene

\* C10: a step that pushes onto the Command Log keeps the entries up to the
\* cursor, discards those after it, appends its own and leaves the cursor at
\* the end, so that redo is unavailable and changes nothing.
C10_PushStep ==
    command_list' # command_list =>
        /\ SubSeq(command_list', 1, index) = SubSeq(command_list, 1, index)
        /\ Len(command_list') > index
        /\ index' = Len(command_list')
        /\ ~CanRedo(Stack')
        /\ StackRedo(Stack', item').items = item'
C10_PushDiscardsTail == [][C10_PushStep]_vars

\* C10 witness: the only entry of the Command Log adds an item that was not
\* the first one constructed: the entries of the earlier items were undone
\* and then discarded by a push.
C10_Witness ==
    /\ Len(command_list) = 1
    /\ index = 1
    /\ command_list[1].type = "Add"
    /\ command_list[1].item > 1

\* The step ends the gesture that drew item i.
Finalizes(i) ==
    /\ buttonDown
    /\ ~buttonDown'
    /\ \/ tool = "PEN" /\ current_item = i
       \/ tool \in {"LINE", "RECT", "ELLIPSE"} /\ shape_item = i

\* C11: item_created is emitted with an item exactly once, in the step that
\* ends the gesture that drew it, and in no other step: not when an item is
\* pasted, duplicated, committed from a preview or generated by the panel.
\* (An object whose kind changes in the step is a new object that took the
\* place of a collected one.)
C11_EmitStep ==
    \A i \in Items :
        item'[i].kind # "none" =>
            /\ item'[i].created =
                   (IF item[i].kind = item'[i].kind THEN item[i].created ELSE 0)
                   + (IF Finalizes(i) THEN 1 ELSE 0)
            /\ item'[i].created <= 1
            /\ Finalizes(i) => item'[i].created = 1
Attributes(it) ==
    [kind |-> it.kind, pos |-> it.pos, stroke |-> it.stroke,
     width |-> it.width, brush |-> it.brush, z |-> it.z,
     opacity |-> it.opacity, tag |-> it.tag, geom |-> it.geom]

\* C12: an item encoded by serialize_item and decoded by deserialize_item
\* comes back as an item with the same type, position, stroke colour and
\* width, fill, z value, opacity, tag and geometry.
C12_RoundTrip ==
    codec.stage = "decoded" =>
        /\ IsItem(codec.out)
        /\ Attributes(codec.out) = Attributes(codec.item)

\* The same round trip for the items that are fully opaque.
C12_OpaqueRoundTrip ==
    codec.stage = "decoded" /\ codec.item.opacity = FullOpacity =>
        /\ IsItem(codec.out)
        /\ Attributes(codec.out) = Attributes(codec.item)

\* ------------------------------------------------------------------ C13
\* C13: the scene's encoder yields a record for an item exactly when the
\* Codec's does, and the two records decode, each by its own decoder, to
\* equal items.
C13_SceneEncodesAsCodec ==
    /\ codec.stage \in {"encoded", "decoded"} =>
           (codec.scene_data = Nothing <=> codec.data = Nothing)
    /\ codec.stage = "decoded" => codec.scene_out = codec.out

\* The same agreement for the kinds _serialize_item has a branch for.
C13_AgreeOnSceneKinds ==
    codec.item.kind \in SceneSupported =>
        /\ codec.stage \in {"encoded", "decoded"} =>
               (codec.scene_data = Nothing <=> codec.data = Nothing)
        /\ codec.stage = "decoded" =>
               IsItem(codec.out) /\ codec.scene_out = codec.out

\* ------------------------------------------------------------------ C14
\* C14: neither decoder raises: for a record whose type is unknown or
\* absent, or whose geometry is missing, both return None.
C14_DecodeNeverRaises ==
    codec.stage = "read" =>
        /\ ~IsRaise(codec.out)
        /\ ~IsRaise(codec.scene_out)

\* The records the Codec's decoder turns into None: a type without a
\* branch, no type at all, and a path without elements.
C14_CodecNoneForUnknownType ==
    codec.stage = "read"
        /\ Get(codec.data, "type", None) \in
               {None, "QGraphicsTextItem", "QGraphicsPathItem"}
    => codec.out = Nothing

\* ------------------------------------------------------------------ C15
\* What paste may not change for a malformed text: the items (presence,
\* positions, selection) and the undo stack; and no exception.
PasteChangesNothing ==
    LET P == Paste(State)
    IN /\ P.item = item
       /\ StackOf(P) = StackOf(State)
       /\ P.ended.how # "raise"

\* C15: with a clipboard text that is not JSON, or is JSON without an items
\* list, paste raises nothing and leaves the live items, their positions,
\* the undo stack and the selection as they were.
C15_MalformedPasteIsEmpty ==
    ~clipboard.json \/ "items" \notin DOMAIN clipboard => PasteChangesNothing

\* The same for the text that is not JSON.
C15_NonJsonPasteIsEmpty ==
    ~clipboard.json => PasteChangesNothing

\* ------------------------------------------------------------------ C16
\* The scene's decoder skips the record as None.
Skipped(d) == DeserializeItem(d) = Nothing

\* The clipboard holds an items list of records that decode or are skipped,
\* and paste is enabled.
Pastable ==
    /\ clipboard.json
    /\ "items" \in DOMAIN clipboard
    /\ \A k \in 1..Len(clipboard.items) :
           Decodable(clipboard.items[k]) \/ Skipped(clipboard.items[k])
    /\ Cardinality(Free(item)) >= Len(SelectSeq(clipboard.items, Decodable))

\* C16: paste of a clipboard with k decodable records adds exactly k items
\* to the scene, the j-th at the position of the j-th decodable record plus
\* the offset, pushes one already-present Add for each after the cursor,
\* and leaves exactly the k new items selected; the items that were in the
\* scene change in their selection only.
C16_PasteInsertsAndSelects ==
    Pastable =>
        LET dec == SelectSeq(clipboard.items, Decodable)
            k == Len(dec)
            P == Paste(State)
            new == SceneItems(P.item) \ SceneItems(item)
        IN /\ P.ended.how # "raise"
           /\ Cardinality(new) = k
           /\ \A i \in SceneItems(item) :
                  [P.item[i] EXCEPT !.selected = item[i].selected] = item[i]
           /\ P.index = index + k
           /\ IF k = 0 THEN P.command_list = command_list
              ELSE /\ Len(P.command_list) = index + k
                   /\ \A j \in 1..index : P.command_list[j] = command_list[j]
           /\ \A j \in 1..k :
                  /\ P.command_list[index + j].type = "Add"
                  /\ P.command_list[index + j].item \in new
                  /\ P.command_list[index + j] =
                         AfterRedo(AddItemCommand(
                             P.command_list[index + j].item, TRUE))
                  /\ P.item[P.command_list[index + j].item].pos
                         = dec[j].pos + PasteOffset
                  /\ \A h \in 1..k :
                         h # j => P.command_list[index + h].item
                                      # P.command_list[index + j].item
           /\ SelectedItems(P.item) = new

\* Two records were pasted over a drawn ellipse: the rect and the ellipse of
\* the records are in the scene at their positions plus the offset, selected,
\* each under its own Add, and the drawn ellipse is not selected.
C16_Witness ==
    \E a, b, c \in SceneItems(item) :
        /\ item[a].created = 1 /\ ~item[a].selected
        /\ item[b].kind = "rect" /\ item[b].pos = ForeignRect.pos + PasteOffset
        /\ item[c].kind = "ellipse"
        /\ item[c].pos = ForeignEllipse.pos + PasteOffset
        /\ item[c].created = 0
        /\ SelectedItems(item) = {b, c}
        /\ index = Len(command_list)
        /\ command_list[index - 1] = AfterRedo(AddItemCommand(b, TRUE))
        /\ command_list[index] = AfterRedo(AddItemCommand(c, TRUE))

\* ------------------------------------------------------------------ C17
\* The step is the press, or the release, of a gesture with the SELECT tool.
SelectPressStep == tool = "SELECT" /\ ~buttonDown /\ buttonDown'
SelectReleaseStep == tool = "SELECT" /\ buttonDown /\ ~buttonDown'

\* The pointer is more than MoveEpsilon away from where it was pressed.
Displaced ==
    /\ press_pos # NoPos
    /\ (IF pointer < press_pos THEN press_pos - pointer
        ELSE pointer - press_pos) > MoveEpsilon

\* The items captured at the press whose position is no longer the captured
\* one.
MovedSinceCapture ==
    {i \in DOMAIN move_old_positions : item[i].pos # move_old_positions[i]}

\* The step pushes one Move command and nothing else.
PushesOneMove ==
    /\ index' = index + 1
    /\ Len(command_list') = index'
    /\ SubSeq(command_list', 1, index) = SubSeq(command_list, 1, index)
    /\ command_list'[index'].type = "Move"

StackUnchanged ==
    /\ command_list' = command_list
    /\ index' = index
    /\ macro_stack' = macro_stack

\* C17: the release of a SELECT gesture pushes exactly one Move command when
\* the pointer was displaced by more than 2 units and a captured item has
\* changed its position, and pushes nothing otherwise; the press pushes
\* nothing.
C17_GestureStep ==
    /\ SelectPressStep => StackUnchanged
    /\ SelectReleaseStep =>
           IF Displaced /\ MovedSinceCapture # {}
           THEN PushesOneMove
           ELSE StackUnchanged
Positions(its) == [i \in Items |-> its[i].pos]

\* C18: the Move command a SELECT release pushes covers exactly the captured
\* items whose position differs from the captured one, with the captured
\* positions as old and the positions at the release as new; its undo and
\* its redo change the position of covered items only.
C18_CoverStep ==
    SelectReleaseStep /\ index' = index + 1 =>
        LET c == command_list'[index']
            undone == CmdUndo(item', c)
            redone == CmdRedo(undone, c)
        IN /\ c.type = "Move"
           /\ c.items = MovedSinceCapture
           /\ \A i \in c.items :
                  /\ c.old[i] = move_old_positions[i]
                  /\ c.new[i] = item[i].pos
                  /\ undone[i].pos = c.old[i]
                  /\ redone[i].pos = c.new[i]
           /\ \A i \in Items \ c.items :
                  /\ undone[i] = item'[i]
                  /\ redone[i] = item'[i]
           /\ \A i \in c.items :
                  /\ [undone[i] EXCEPT !.pos = item'[i].pos] = item'[i]
                  /\ [redone[i] EXCEPT !.pos = item'[i].pos] = item'[i]
C18_MoveCoversMovedItems == [][C18_CoverStep]_vars

\* Two strokes were drawn and one of them was dragged: the Move command on
\* top covers the dragged stroke only, and the other stroke is in the scene
\* where it was drawn.
C18_Witness ==
    /\ index = 3
    /\ command_list[3].type = "Move"
    /\ ~buttonDown
    /\ \E i, j \in SceneItems(item) :
           /\ i # j
           /\ command_list[3].items = {i}
           /\ item[i].pos = command_list[3].new[i]
           /\ item[i].pos # command_list[3].old[i]
           /\ item[j].pos = 0

\* ------------------------------------------------------------------ C19
\* The items that leave the scene in the step.
Gone == {i \in Items : item[i].scene /\ ~item'[i].scene}

\* The step is an undo, or the redo of a command of the undone tail.
HistoryStep ==
    \/ index' < index
    \/ /\ index' = index + 1
       /\ Len(command_list) > index
       /\ command_list' = command_list
       /\ buttonDown' = buttonDown

\* C19: an item leaves the scene, otherwise than by undo or redo, only with
\* the ERASER tool in a press or in a move with the button held; the step
\* removes exactly one item and pushes one Remove command for it, whose
\* undo puts back that item and changes no other.
C19_EraseStep ==
    Gone # {} /\ ~HistoryStep =>
        /\ tool = "ERASER"
        /\ buttonDown'
        /\ Cardinality(Gone) = 1
        /\ index' = index + 1
        /\ Len(command_list') = index'
        /\ \A i \in Gone :
               LET c == command_list'[index']
                   undone == CmdUndo(item', c)
               IN /\ c = RemoveItemCommand(item, i)
                  /\ undone[i].scene
                  /\ undone[i].pos = item[i].pos
                  /\ \A j \in Items \ {i} : undone[j] = item'[j]
WithoutLogger == [State EXCEPT !.logger = None]
WithLogger == [State EXCEPT !.logger = "Recording"]

\* Two outcomes are the same state apart from the logger and what it logged:
\* the items with their attributes, the tool and the colours, the gesture
\* state, the undo stack, the clipboard, the ghosts, the suppression set, the
\* open flows and the way the operation ended.
SameButLog(A, B) ==
    [A EXCEPT !.logger = None, !.logged = << >>]
        = [B EXCEPT !.logger = None, !.logged = << >>]

\* The object a press with a drawing tool constructs.
NextObject == IF Free(item) = {} THEN NoItem ELSE LowestN(Free(item), 1)[1]

\* Every operation of the toolbar, the palette, the clipboard and the
\* assistant that the current state admits has the same outcome with and
\* without a logger.
C20_Commands ==
    /\ \A t \in Tools : SameButLog(SetTool(WithoutLogger, t), SetTool(WithLogger, t))
    /\ \A hex \in {"#000000", "#ff0000"} :
           SameButLog(SetStrokeColor(WithoutLogger, hex),
                      SetStrokeColor(WithLogger, hex))
    /\ \A color \in {None, "#ff0000"} :
           SameButLog(SetFillColor(WithoutLogger, color),
                      SetFillColor(WithLogger, color))
    /\ \A enabled \in BOOLEAN :
           SameButLog(SetAutoEnabled(WithoutLogger, enabled),
                      SetAutoEnabled(WithLogger, enabled))
    /\ SameButLog(CopySelection(WithoutLogger), CopySelection(WithLogger))
    /\ SameButLog(CutSelection(WithoutLogger), CutSelection(WithLogger))
    /\ Cardinality(Free(item))
           >= Len(SelectSeq(Get(clipboard, "items", << >>), Decodable))
         => SameButLog(Paste(WithoutLogger), Paste(WithLogger))
    /\ Cardinality(Free(item)) >= Cardinality(SelectedItems(item))
         => SameButLog(DuplicateSelection(WithoutLogger),
                       DuplicateSelection(WithLogger))
    /\ \A pair \in PanelCatalog :
           SameButLog(OnSuggestion(WithoutLogger, pair[1], pair[2], 0),
                      OnSuggestion(WithLogger, pair[1], pair[2], 0))

\* The eraser chosen in the current state, then a press over target.
ErasePress(S, target) == MousePressEvent(SetTool(S, "ERASER"), target, NoItem)

\* Every mouse event the current state admits has the same outcome with and
\* without a logger; so has the release that follows a move of the pointer,
\* and so have the press and the move of the eraser once it is chosen.
C20_Mouse ==
    /\ ~buttonDown
         => \A target, over \in SceneItems(item) \cup {NoItem} :
                /\ SameButLog(ErasePress(WithoutLogger, target),
                              ErasePress(WithLogger, target))
                /\ over # target
                     => SameButLog(
                            MouseMoveEvent(ErasePress(WithoutLogger, target),
                                           MoveEpsilon, over, {}),
                            MouseMoveEvent(ErasePress(WithLogger, target),
                                           MoveEpsilon, over, {}))
    /\ ~buttonDown /\ (tool \in {"PEN", "LINE", "RECT", "ELLIPSE"} => Free(item) # {})
         => \A target \in SceneItems(item) \cup {NoItem} :
                SameButLog(MousePressEvent(WithoutLogger, target, NextObject),
                           MousePressEvent(WithLogger, target, NextObject))
    /\ buttonDown
         => /\ SameButLog(MouseReleaseEvent(WithoutLogger, NoFail),
                          MouseReleaseEvent(WithLogger, NoFail))
            /\ \A p \in PointerStops, target \in SceneItems(item) \cup {NoItem} :
                   (tool # "ERASER" => target = NoItem)
                     => /\ SameButLog(
                               MouseMoveEvent(WithoutLogger, p, target, {}),
                               MouseMoveEvent(WithLogger, p, target, {}))
                        /\ SameButLog(
                               MouseReleaseEvent(
                                   MouseMoveEvent(WithoutLogger, p, target, {}),
                                   NoFail),
                               MouseReleaseEvent(
                                   MouseMoveEvent(WithLogger, p, target, {}),
                                   NoFail))

\* Every step of a suggestion flow the current state admits has the same
\* outcome with and without a logger: the manual invocation, and each
\* answer to the open dialog.
C20_Suggestions ==
    /\ flows = << >> /\ ~buttonDown
         => SameButLog(OnManualInvoke(WithoutLogger, NoFail),
                       OnManualInvoke(WithLogger, NoFail))
    /\ flows # << >>
         => \A choice \in Choices :
                SameButLog(Decide(WithoutLogger, choice, NoFail),
                           Decide(WithLogger, choice, NoFail))

C20_WitnessWithout ==
    /\ logger = None
    /\ logged = << >>
    /\ clipboard.json
    /\ Get(clipboard, "items", << >>) # << >>
    /\ command_list # << >>
    /\ command_list[Len(command_list)].type = "Remove"

\* The item a shape tool is drawing is of the tool's kind, so that the read
\* of its geometry at the end of the gesture does not raise.
C20_ShapeOfToolKind ==
    shape_item # NoItem /\ tool \in {"LINE", "RECT", "ELLIPSE"} /\ buttonDown
        => item[shape_item].kind = ShapeKind(tool)

\* ---------------------------------------------------------------- C21
\* The absolute value, and the smaller of two numbers.
Abs(n) == IF n < 0 THEN -n ELSE n
Min(m, n) == IF m < n THEN m ELSE n

\* C21: during a RECT or ELLIPSE gesture the live item's rectangle is, after
\* the press and after every move, the rectangle spanned by the anchor and
\* the current point, with origin (min x, min y), width |dx| and height
\* |dy|, both non-negative, whatever the direction of the drag; during a
\* LINE gesture the live item's line is the raw segment from the anchor to
\* the current point.
C21_LiveShapeGeometry ==
    buttonDown /\ shape_item # NoItem /\ tool \in {"LINE", "RECT", "ELLIPSE"}
        => LET a == shape_start
               p == scenePos
               g == item[shape_item].geom
           IN IF tool = "LINE"
              THEN g = << a[1], a[2], p[1], p[2] >>
              ELSE /\ g = << Min(a[1], p[1]), Min(a[2], p[2]),
                             Abs(p[1] - a[1]), Abs(p[2] - a[2]) >>
                   /\ g[3] >= 0
                   /\ g[4] >= 0

\* A RECT gesture from (50,80) has reached (10,20): the live rectangle has
\* origin (10,20), width 40 and height 60.
C21_Witness ==
    /\ buttonDown
    /\ tool = "RECT"
    /\ shape_item # NoItem
    /\ shape_start = << 50, 80 >>
    /\ scenePos = << 10, 20 >>
    /\ item[shape_item].kind = "rect"
    /\ item[shape_item].geom = << 10, 20, 40, 60 >>

\* ---------------------------------------------------------------- C22
\* The stroke and the fill of an item.
Style(it) == [stroke |-> it.stroke, brush |-> it.brush]

\* The style an item of the given kind takes from the scene's current
\* colours: stroke and fill for a rect or an ellipse, stroke only for a path
\* or a line.
CurrentStyle(kind) ==
    [stroke |-> stroke_color,
     brush |-> IF kind \in {"rect", "ellipse"} /\ fill_color # None
               THEN SolidBrush(fill_color) ELSE NoBrush]

\* Everything of the scene but its current colours is left as it was.
OnlyStyleFieldsChange ==
    /\ item' = item
    /\ tool' = tool
    /\ current_item' = current_item
    /\ shape_item' = shape_item
    /\ shape_start' = shape_start
    /\ buttonDown' = buttonDown
    /\ command_list' = command_list
    /\ index' = index
    /\ macro_stack' = macro_stack
    /\ ghost_items' = ghost_items
    /\ clipboard' = clipboard

C22_StyleStep ==
    /\ stroke_color' # stroke_color \/ fill_color' # fill_color
         => OnlyStyleFieldsChange
    /\ \A i \in Items :
           /\ item[i].scene /\ item'[i].scene => Style(item'[i]) = Style(item[i])
           /\ ~item[i].scene /\ item'[i].scene /\ ~buttonDown /\ buttonDown'
                => /\ stroke_color' = stroke_color
                   /\ fill_color' = fill_color
                   /\ Style(item'[i]) = CurrentStyle(item'[i].kind)

\* C22: setting the stroke colour or the fill colour changes only the
\* scene's current colours: every item that exists, the item of a gesture
\* in progress included, keeps its stroke and its fill, and an item created
\* afterwards by a press of a drawing tool takes the current stroke, and the
\* current fill when it is a rect or an ellipse (a path or a line takes no
\* fill).
C22_StyleNotRetroactive == [][C22_StyleStep]_vars

\* An ellipse was drawn in black without fill; then a rect was started in
\* red with a red fill, and during its gesture the fill was set to none and
\* the stroke back to black: both items keep the style of their creation.
C22_Witness ==
    /\ buttonDown
    /\ shape_item # NoItem
    /\ item[shape_item].kind = "rect"
    /\ Style(item[shape_item])
           = [stroke |-> "#ff0000", brush |-> SolidBrush("#ff0000")]
    /\ stroke_color = "#000000"
    /\ fill_color = None
    /\ \E i \in Items :
           /\ item[i].scene
           /\ item[i].kind = "ellipse"
           /\ Style(item[i]) = [stroke |-> "#000000", brush |-> NoBrush]

\* ---------------------------------------------------------------- C23
\* The step is a call of set_tool, and nothing else.
SetToolStep == \E t \in Tools : Becomes(Collect(During(SetTool(State, t))))

\* C23: the active tool changes only by an explicit set_tool call: a step
\* that changes the tool is a call of set_tool and nothing else, so no press
\* or release, no clipboard operation, no undo or redo and no step of a
\* suggestion flow changes it.
C23_ToolChangesOnlyBySetTool == [][tool' # tool => SetToolStep]_vars

\* The ELLIPSE tool was chosen; since then an item was drawn, an auto flow
\* was accepted, the commit was undone and a selection was copied, and the
\* tool is still ELLIPSE.
C23_Witness ==
    /\ tool = "ELLIPSE"
    /\ ended.rejected = {}
    /\ auto_enabled
    /\ Len(command_list) = 2
    /\ command_list[2].type = "Macro"
    /\ index = 1
    /\ clipboard.json

\* ---------------------------------------------------------------- C24
\* The Add and Remove commands of a command, a macro's children included.
RECURSIVE AddRemoves(_)
RECURSIVE AddRemovesAll(_, _)
AddRemovesAll(cs, k) ==
    IF k > Len(cs) THEN {}
    ELSE AddRemoves(cs[k]) \cup AddRemovesAll(cs, k + 1)
AddRemoves(c) ==
    CASE c.type \in {"Add", "Remove"} -> {c}
      [] c.type = "Macro" -> AddRemovesAll(c.children, 1)
      [] OTHER -> {}

\* The Add and Remove commands of the Command Log, and the ones that can be
\* built for a live item now.
C24_Commands ==
    AddRemovesAll(command_list, 1)
    \cup {AddItemCommand(i, TRUE) : i \in SceneItems(item)}
    \cup {RemoveItemCommand(item, i) : i \in SceneItems(item)}

\* redo() and undo() of one Add or Remove command
C24_Redo(its, c) == IF c.type = "Add" THEN AddRedo(its, c) ELSE RemoveRedo(its, c)
C24_Undo(its, c) == IF c.type = "Add" THEN AddUndo(its, c) ELSE RemoveUndo(its, c)

\* C24: an Add built for a live item does nothing on its first redo, and on
\* a later redo inserts the item if it is not live and does nothing if it
\* is; Add.undo and Remove.redo remove the item if it is live and do nothing
\* otherwise; Remove.undo inserts the item, at the remembered position, if
\* it is not live and does nothing otherwise; each of them invoked twice in
\* a row leaves what one invocation leaves.
C24_AddRemoveIdempotent ==
    \A c \in C24_Commands :
        LET live == item[c.item].scene
            once == C24_Redo(item, c)
            back == C24_Undo(item, c)
        IN  /\ c.type = "Add" /\ c.first_redo => live /\ once = item
            /\ c.type = "Add" /\ ~c.first_redo =>
                   once = IF live THEN item ELSE AddItem(item, c.item)
            /\ c.type = "Add" =>
                   back = IF live THEN RemoveItem(item, c.item) ELSE item
            /\ c.type = "Remove" =>
                   /\ once = IF live THEN RemoveItem(item, c.item) ELSE item
                   /\ back = IF live THEN item
                             ELSE [AddItem(item, c.item)
                                      EXCEPT ![c.item].pos = c.pos]
            /\ C24_Redo(once, AfterRedo(c)) = once
            /\ C24_Undo(back, c) = back

\* An erased item's Remove was undone and the drawing's Add was undone after
\* it: the log holds an Add and a Remove of an item that is not live.
C24_Witness ==
    \E i \in Items :
        /\ ~item[i].scene
        /\ Len(command_list) = 2
        /\ index = 0
        /\ command_list[1] = AddItemCommand(i, FALSE)
        /\ command_list[2].type = "Remove"
        /\ command_list[2].item = i

\* ---------------------------------------------------------------- C25
\* C25: _clear_ghost tolerates stale state.  Called in any reachable state,
\* it leaves a ghost that is no longer in a scene as it is, removes the
\* ghosts that are in the scene and nothing else, leaves every other item
\* and everything but the ghost list alone, empties the ghost list, and
\* changes nothing at all when there is no ghost.
C25_ClearGhostTolerant ==
    LET C == ClearGhost(State)
        ghosts == Range(ghost_items)
    IN  /\ C.ghost_items = << >>
        /\ \A i \in Items :
               C.item[i] = IF i \in ghosts /\ item[i].scene
                           THEN [item[i] EXCEPT !.scene = FALSE]
                           ELSE item[i]
        /\ C = [State EXCEPT !.item = C.item, !.ghost_items = << >>]
        /\ ghost_items = << >> => C = State

\* A flow was refused after the eraser had removed one of its two ghosts:
\* the cleanup found one ghost gone, the erased ghost is held by the Remove
\* of the Command Log, no ghost is left in the scene and the list is empty.
C25_Witness ==
    /\ flows = << >>
    /\ ghost_items = << >>
    /\ ended.choice = "ignore"
    /\ ended.how = "return"
    /\ \E k \in 1..Len(command_list) :
           /\ command_list[k].type = "Remove"
           /\ item[command_list[k].item].tag = TagCatEar
           /\ IsGhostLook(item[command_list[k].item])
    /\ \A i \in Items : item[i].tag = TagCatEar => ~item[i].scene

\* ---------------------------------------------------------------- C26
\* _try_suggest called with the trigger in the current state, when the
\* oracle abstains there.
C26_Abstains == ProposeSuggestion(BuildContext(State, "manual")) = Nothing
C26_Flow(trigger) == TrySuggest(State, trigger, "manual", NoFail)

\* The state but for the record of how the last operation ended and the
\* events it logged.
C26_Frame(S) == [S EXCEPT !.ended = State.ended, !.logged = State.logged]

\* C26: a flow in which the oracle abstains opens no dialog of a proposal
\* and changes nothing of the scene, the Command Log, the GhostSet or any
\* other part of the state; the "no suggestion" notice is shown when the
\* trigger is manual and is not shown when it is auto.  A step that shows
\* the notice leaves the items, the undo stack and the ghosts as they were.
C26_AbstentionInState ==
    C26_Abstains =>
        \A trigger \in {"auto", "manual"} :
            LET T == C26_Flow(trigger)
            IN  /\ T.item = item
                /\ StackOf(T) = StackOf(State)
                /\ T.ghost_items = ghost_items
                /\ T.flows = flows
                /\ C26_Frame(T) = State
                /\ (T.ended.how = "notice") <=> (trigger = "manual")
C26_NoticeStep ==
    ended'.how = "notice" =>
        /\ C26_Abstains
        /\ ended'.trigger = "manual"
        /\ item' = item
        /\ command_list' = command_list
        /\ index' = index
        /\ macro_stack' = macro_stack
        /\ ghost_items' = ghost_items
        /\ Len(flows') = Len(flows)
C26_AbstentionChangesNothing ==
    [](C26_AbstentionInState) /\ [][C26_NoticeStep]_vars

\* With the auto mode on a stroke was drawn, for which the oracle abstained
\* without a word, and then the assistant was invoked by hand: the notice
\* was shown, and the scene holds the stroke and the log its Add only.
C26_Witness ==
    /\ ended.how = "notice"
    /\ ended.trigger = "manual"
    /\ auto_enabled
    /\ flows = << >>
    /\ ghost_items = << >>
    /\ Len(command_list) = 1
    /\ index = 1
    /\ command_list[1].type = "Add"
    /\ item[command_list[1].item].kind = "path"
    /\ item[command_list[1].item].created = 1
    /\ SceneItems(item) = {command_list[1].item}

\* ---------------------------------------------------------------- C27
\* The items of the GhostSet of a flow that is neither committed nor rolled
\* back yet.
C27_Ghosts == IF flows = << >> THEN {} ELSE Range(ghost_items)

\* C27: in every state of a preview an item of the GhostSet is disabled, of
\* reduced
\* opacity, not selectable and not movable; it is not selected, it is not
\* the item a SELECT gesture holds or remembers the position of, a copy, a
\* cut or a duplication made in that state would not take it, and no step
\* that keeps it in the GhostSet moves it.
C27_GhostInState ==
    \A i \in C27_Ghosts :
        /\ IsGhostLook(item[i])
        /\ ~item[i].selectable
        /\ ~item[i].movable
        /\ ~item[i].selected
        /\ i # grabber
        /\ i \notin DOMAIN move_old_positions
        /\ i \notin SelectedItems(item)
C27_GhostStep ==
    \A i \in C27_Ghosts \cap Range(ghost_items') : item'[i].pos = item[i].pos
C27_GhostsAreInert == [](C27_GhostInState) /\ [][C27_GhostStep]_vars

\* While the dialog is open a SELECT gesture has grabbed the ellipse and is
\* dragging it: the two ghosts are in the scene, not selected and where
\* they were.
C27_Witness ==
    /\ flows # << >>
    /\ Len(ghost_items) = NumEars
    /\ \A i \in C27_Ghosts : item[i].scene /\ item[i].pos = 0
    /\ tool = "SELECT"
    /\ buttonDown
    /\ grabber # NoItem
    /\ item[grabber].kind = "ellipse"
    /\ item[grabber].selected
    /\ item[grabber].pos # 0

\* ---------------------------------------------------------------- C28
\* An item that can be selected and moved with the SELECT tool.
C28_Editable(it) == it.enabled /\ it.selectable /\ it.movable

\* The items a call adds to the scene.
C28_New(S) == {S.item[i] : i \in SceneItems(S.item) \ SceneItems(item)}

\* C28: every item a decoder returns, deserialize_item or the scene's
\* _deserialize_item, is enabled, selectable and movable, whatever the
\* flags of the item the record was encoded from and wherever the record
\* came from; so is every item a paste or a duplication inserts.
C28_DecodedEditable ==
    /\ codec.stage \in {"decoded", "read"} =>
           /\ IsItem(codec.out) => C28_Editable(codec.out)
           /\ IsItem(codec.scene_out) => C28_Editable(codec.scene_out)
    /\ Pastable => \A it \in C28_New(Paste(State)) : C28_Editable(it)
    /\ Cardinality(Free(item)) >= Cardinality(SelectedItems(item)) =>
           \A it \in C28_New(DuplicateSelection(State)) : C28_Editable(it)

\* A ghost ear, disabled, neither selectable nor movable, was encoded and
\* decoded: the decoded item is enabled, selectable and movable.
C28_Witness ==
    /\ codec.stage = "decoded"
    /\ ~codec.item.enabled
    /\ ~codec.item.selectable
    /\ ~codec.item.movable
    /\ IsItem(codec.out)
    /\ C28_Editable(codec.out)

\* Two records of the clipboard were pasted: the two new items are selected,
\* and both can be moved.
C28_WitnessPasted ==
    \E a, b \in SelectedItems(item) :
        /\ a # b
        /\ item[a].created = 0 /\ item[b].created = 0
        /\ C28_Editable(item[a]) /\ C28_Editable(item[b])

\* ---------------------------------------------------------------- C29
\* The ghosts of the innermost blocked flow.
C29_Previewed == Range(flows[Len(flows)].ghost)

\* The flow as the user's answer leaves it, when nothing raises.
C29_Answered(choice) == Collect(Decide(State, choice, NoFail))

\* The end states of a flow whose items are the set G, in the state S:
\* committed, every item live and added by the Command Log; discarded,
\* every item out of the scene.
C29_Committed(S, G) ==
    \A i \in G : S.item[i].scene /\ i \in AddedByAll(S.command_list, 1)
C29_Discarded(S, G) == \A i \in G : ~S.item[i].scene

\* While a flow is blocked its ghosts are displayed, and each of the four
\* answers would end it.
C29_Blocked ==
    flows # << >> =>
        /\ \A i \in C29_Previewed : item[i].scene /\ IsGhostLook(item[i])
        /\ \A choice \in Choices :
               Len(C29_Answered(choice).flows) = Len(flows) - 1

\* A flow ends only in the step of the user's answer, and that step leaves
\* it committed or discarded.
C29_EndStep ==
    Len(flows') < Len(flows) =>
        /\ ended'.trigger = flows[Len(flows)].trigger
        /\ ended'.choice \in Choices =>
               LET S == [item |-> item', command_list |-> command_list']
                   G == C29_Previewed
               IN  /\ C29_Committed(S, G) \/ C29_Discarded(S, G)
                   /\ ended'.choice = "accept" <=> C29_Committed(S, G)

\* C29: a flow that reached Proposed stays blocked with its ghosts displayed
\* until the user answers, every answer (accept, ignore, override, or the
\* dialog closed) ends it, nothing else does, and the flow that ended is
\* either committed, its items live and in the Command Log, or discarded,
\* its items removed.
C29_CommittedOrDiscarded == [](C29_Blocked) /\ [][C29_EndStep]_vars

\* A flow ended by accept: its two items are live and in the macro on top
\* of the Command Log.
C29_Witness ==
    /\ ended.choice = "accept"
    /\ ended.how = "return"
    /\ flows = << >>
    /\ index = Len(command_list)
    /\ command_list[index].type = "Macro"
    /\ \A i \in AddedBy(command_list[index]) :
           item[i].scene /\ item[i].tag = TagCatEar
    /\ Cardinality(AddedBy(command_list[index])) = NumEars

\* ---------------------------------------------------------------- C30
\* The entries of the stack st at and just below its cursor.
C30_Top(st) == st.command_list[st.index]
C30_Below(st) == st.command_list[st.index - 1]

\* When item_created was emitted for the item of an auto flow, the stack
\* already had the item's Add, redone once, as its last entry.
C30_PushedBeforeEmit ==
    \A k \in 1..Len(flows) :
        flows[k].trigger = "auto" =>
            LET st == flows[k].before.stack
                d == DrawnItem(State, flows[k].caller)
            IN  /\ d # NoItem
                /\ item[d].created = 1
                /\ st.index = Len(st.command_list)
                /\ st.index > 0
                /\ C30_Top(st) = AddItemCommand(d, FALSE)

\* The step in which an auto flow is accepted leaves the macro of the
\* suggested items on top of the drawn item's Add; the first undo removes
\* the suggested items and nothing else, the second removes the drawn item
\* and nothing else.
C30_AcceptStep ==
    ended'.choice = "accept" /\ ended'.trigger = "auto"
        /\ ended'.how = "return" =>
        LET d == DrawnItem(State, PendingFlow.caller)
            G == Range(PendingFlow.ghost)
            first == StackUndo(Stack', item')
            second == StackUndo(first.stack, first.items)
        IN  /\ index' >= 2
            /\ C30_Top(Stack').type = "Macro"
            /\ CmdItems(C30_Top(Stack')) = G
            /\ C30_Below(Stack') = AddItemCommand(d, FALSE)
            /\ d \notin G
            /\ item'[d].scene
            /\ \A i \in G : ~first.items[i].scene
            /\ \A i \in Items \ G : first.items[i] = item'[i]
            /\ ~second.items[d].scene
            /\ \A i \in Items \ {d} : second.items[i] = first.items[i]
            /\ second.stack.index = index' - 2

\* C30: at the end of a PEN, LINE, RECT or ELLIPSE gesture the Add of the
\* drawn item, already present, is pushed before item_created is emitted;
\* so when the auto flow is accepted the Command Log holds the drawn item's
\* Add just below the macro of the suggestion: the first undo removes only
\* the suggested items and the second undo removes the drawn item.
C30_AddBelowMacro == [](C30_PushedBeforeEmit) /\ [][C30_AcceptStep]_vars

\* An ellipse was drawn with the auto mode on and the suggestion accepted:
\* the log is the ellipse's Add and, above it, the macro of the two ears.
C30_Witness ==
    /\ ended.choice = "accept"
    /\ ended.trigger = "auto"
    /\ ended.how = "return"
    /\ index = 2
    /\ Len(command_list) = 2
    /\ command_list[1].type = "Add"
    /\ item[command_list[1].item].kind = "ellipse"
    /\ item[command_list[1].item].created = 1
    /\ command_list[2].type = "Macro"
    /\ \A i \in CmdItems(command_list[2]) : item[i].tag = TagCatEar
    /\ SceneItems(item) = {command_list[1].item} \cup CmdItems(command_list[2])

\* ---------------------------------------------------------------- C31
\* C31: whenever no button is held, every live item that a drawing gesture
\* created has an Add command in the Command Log, whatever presses, moves,
\* releases and tool choices came before.
C31_DrawnItemsHaveAdd ==
    ~buttonDown =>
        \A i \in SceneItems(item) :
            item[i].kind \in {"path", "line", "rect", "ellipse"}
                => i \in AddedByAll(command_list, 1)

\* ---------------------------------------------------------------- C32
\* A step of undo or redo: the cursor of the Command Log moves and the log
\* stays as it is.
C32_HistoryStep == index' # index /\ command_list' = command_list

\* C32: once no suggestion flow is open, no undo and no redo puts an item
\* into the scene in ghost state (disabled, at reduced opacity).
C32_UndoStep ==
    flows = << >> /\ C32_HistoryStep =>
        \A i \in Items :
            ~item[i].scene /\ item'[i].scene => ~IsGhostLook(item'[i])
C32_NoGhostByUndo == [][C32_UndoStep]_vars

\* ---------------------------------------------------------------- C33
\* How many Add commands for the item i the commands cs hold from the k-th
\* on, the children of a macro included.
RECURSIVE AddCount(_, _, _)
AddCount(cs, k, i) ==
    IF k > Len(cs) THEN 0
    ELSE (CASE cs[k].type = "Add" -> IF cs[k].item = i THEN 1 ELSE 0
            [] cs[k].type = "Macro" -> AddCount(cs[k].children, 1, i)
            [] OTHER -> 0)
         + AddCount(cs, k + 1, i)

\* C33: an item has at most one Add command in the Command Log and
\* item_created is emitted for it at most once, also when pointer events
\* are dispatched while the preview of an auto flow is pending.
C33_OneAddPerItem ==
    \A i \in Items :
        /\ AddCount(command_list, 1, i) <= 1
        /\ item[i].created <= 1

\* ---------------------------------------------------------------- C34
\* C34: a cut of the current selection writes a clipboard payload with one
\* record for each item it removes from the scene, whatever their kinds.
C34_CutKeepsEveryItem ==
    SelectedItems(item) # {} /\ flows = << >> =>
        LET C == CutSelection(State)
            removed == SceneItems(item) \ SceneItems(C.item)
        IN /\ removed = SelectedItems(item)
           /\ C.clipboard.json
           /\ Len(C.clipboard.items) = Cardinality(removed)
           /\ \A i \in removed :
                  \E k \in 1..Len(C.clipboard.items) :
                      C.clipboard.items[k].type = TypeName(item[i].kind)

\* ---------------------------------------------------------------- C35
\* C35: a SELECT gesture that ends without pushing a command leaves every
\* item it had captured at the press where it was at the press.
C35_ReleaseStep ==
    tool = "SELECT" /\ buttonDown /\ ~buttonDown'
        /\ command_list' = command_list /\ index' = index =>
        \A i \in DOMAIN move_old_positions :
            item'[i].pos = move_old_positions[i]
C35_MovesAreRecorded == [][C35_ReleaseStep]_vars

\* ---------------------------------------------------------------- C36
\* The items a paste put into the scene.
C36_Inserted(P) == SceneItems(P.item) \ SceneItems(item)

\* C36: for any clipboard content paste raises nothing, and every item it
\* put into the scene has its Add command in the undo stack and is selected
\* when paste ends.
C36_PasteIsWhole ==
    /\ flows = << >> /\ ~buttonDown
    /\ Cardinality(Free(item))
           >= Len(SelectSeq(Get(clipboard, "items", << >>), Decodable))
    => LET P == Paste(State)
       IN /\ P.ended.how # "raise"
          /\ \A i \in C36_Inserted(P) :
                 /\ P.item[i].selected
                 /\ i \in AddedByAll(P.command_list, 1)

\* The part about the selection alone: what paste inserted is selected.
C36_InsertedAreSelected ==
    /\ flows = << >> /\ ~buttonDown
    /\ Cardinality(Free(item))
           >= Len(SelectSeq(Get(clipboard, "items", << >>), Decodable))
    => \A i \in C36_Inserted(Paste(State)) : Paste(State).item[i].selected

\* The part about the undo stack alone: what paste inserted has its Add.
C36_InsertedHaveAdd ==
    /\ flows = << >> /\ ~buttonDown
    /\ Cardinality(Free(item))
           >= Len(SelectSeq(Get(clipboard, "items", << >>), Decodable))
    => \A i \in C36_Inserted(Paste(State)) :
           i \in AddedByAll(Paste(State).command_list, 1)

\* ---------------------------------------------------------------- C37
\* item_created is emitted in the step.
C37_Emitted == \E i \in Items : item'[i].created > item[i].created

\* The step starts no flow: no dialog is open after it and none was shown in
\* it, the oracle's answer is not logged, the ghost list is as it was, no
\* item took the ghost's look, and the undo stack has at most the Add of the
\* item the gesture drew on top of what it had.
C37_Quiet ==
    /\ flows' = << >>
    /\ ended'.trigger = "none"
    /\ "ai_output" \notin Range(logged')
    /\ "autosuggest_shown" \notin Range(logged')
    /\ ghost_items' = ghost_items
    /\ \A i \in Items : item'[i].scene /\ IsGhostLook(item'[i]) =>
           item[i].scene /\ IsGhostLook(item[i])
    /\ \A i \in Items : item'[i].created > item[i].created =>
           /\ index' > 0
           /\ command_list'[index'].type = "Add"
           /\ command_list'[index'].item = i
           /\ AddedByAll(command_list', 1) \subseteq
                  AddedByAll(command_list, 1) \cup {i}

\* While auto suggestions are off an item_created starts nothing.
C37_OffStep == ~auto_enabled /\ C37_Emitted => C37_Quiet

\* A flow the trigger "auto" started is open, or ends, only while auto
\* suggestions are on.
C37_AutoFlowsWhileOn ==
    \A k \in DOMAIN flows : flows[k].trigger = "auto" => auto_enabled
C37_AutoEndStep == ended'.trigger = "auto" => auto_enabled

\* C37: with auto suggestions off, as they are at the start, item_created
\* starts no suggestion flow (no oracle call, ghost, dialog or command), and
\* flows of the trigger "auto" run only while auto suggestions are on.
C37_AutoOnlyWhenEnabled ==
    /\ [](C37_AutoFlowsWhileOn)
    /\ [][C37_OffStep /\ C37_AutoEndStep]_vars

\* An item was drawn and announced with auto suggestions off, and no dialog
\* is open.
C37_Witness ==
    /\ ~auto_enabled /\ flows = << >>
    /\ \E i \in SceneItems(item) :
           /\ item[i].kind = "ellipse" /\ item[i].created = 1
           /\ i \in AddedByAll(command_list, 1)

\* An item was drawn with auto suggestions on and its flow is open.
C37_WitnessOn ==
    /\ auto_enabled /\ flows # << >> /\ flows[1].trigger = "auto"

\* ---------------------------------------------------------------- C38
\* The state after n undos.
RECURSIVE C38_UndoN(_, _)
C38_UndoN(S, n) == IF n = 0 THEN S ELSE C38_UndoN(UndoStackUndo(S), n - 1)

\* R is the state an insertion of k items left (the items take the lowest
\* free identities in the order of their insertion): the undo stack has k
\* more top-level commands, the Adds of the k items in that order; each undo
\* removes one of them, the last inserted first, and k undos remove all.
C38_Separate(R) ==
    LET new == SceneItems(R.item) \ SceneItems(item)
        k == Cardinality(new)
        order == LowestN(new, k)
    IN /\ R.macro_stack = << >>
       /\ R.index = index + k
       /\ Len(R.command_list) = IF k = 0 THEN Len(command_list) ELSE index + k
       /\ \A j \in 1..k :
              /\ R.command_list[index + j].type = "Add"
              /\ R.command_list[index + j].item = order[j]
       /\ \A j \in 1..k :
              SceneItems(C38_UndoN(R, j).item)
                  = SceneItems(R.item) \ {order[m] : m \in (k - j + 1)..k}
       /\ \A j \in 0..(k - 1) :
              SceneItems(C38_UndoN(R, j).item) # SceneItems(item)

\* A duplication is enabled.
C38_CanDuplicate ==
    /\ flows = << >> /\ ~buttonDown
    /\ SelectedItems(item) # {}
    /\ Cardinality(Free(item)) >= Cardinality(SelectedItems(item))

\* C38: a paste and a duplication of k items push k separate top-level Add
\* commands: k undos are needed to remove what was inserted, and each undo
\* removes exactly one of the inserted items, the last inserted first.
C38_OneAddPerInsertedItem ==
    /\ Pastable /\ flows = << >> /\ ~buttonDown => C38_Separate(Paste(State))
    /\ C38_CanDuplicate => C38_Separate(DuplicateSelection(State))

\* A paste of two items is about to happen.
C38_Witness ==
    /\ Pastable /\ flows = << >> /\ ~buttonDown
    /\ Cardinality(C36_Inserted(Paste(State))) = 2
    /\ index > 0

\* A duplication of one item is about to happen.
C38_WitnessDuplicate ==
    /\ C38_CanDuplicate
    /\ Cardinality(C36_Inserted(DuplicateSelection(State))) = 1
    /\ index > 0

\* ---------------------------------------------------------------- C39
\* The item the gesture in progress is drawing, or NoItem.
C39_Drawn == IF shape_item # NoItem THEN shape_item ELSE current_item

\* The last button goes up while a gesture is drawing an item.
C39_GestureEnd == buttonDown /\ ~buttonDown' /\ C39_Drawn # NoItem

\* The gesture's item is finalized as it is: it stays in the scene with the
\* geometry it had, one Add command for it is on top of the undo stack, and
\* item_created was emitted once for it.
C39_Finalized(d) ==
    /\ item'[d].scene
    /\ item'[d].geom = item[d].geom /\ item'[d].pos = item[d].pos
    /\ index' = index + 1
    /\ command_list'[index'].type = "Add" /\ command_list'[index'].item = d
    /\ AddCount(command_list', 1, d) = 1
    /\ item'[d].created = item[d].created + 1

\* C39: a draw gesture, a press directly followed by the release included,
\* ends with its item live as drawn, one Add command pushed and item_created
\* emitted once; no draw gesture ends without an undo unit for its item.
C39_GestureStep == C39_GestureEnd => C39_Finalized(C39_Drawn)
C39_EveryGestureFinalizes == [][C39_GestureStep]_vars

\* A press directly followed by the release left a shape of size zero at
\* the anchor, with its Add command.
C39_ZeroSize ==
    \E i \in SceneItems(item) :
        /\ item[i].kind \in {"line", "rect", "ellipse"}
        /\ item[i].created = 1
        /\ i \in AddedByAll(command_list, 1)
        /\ ~buttonDown /\ shape_item = NoItem
        /\ \/ item[i].kind = "line" /\ item[i].geom[1] = item[i].geom[3]
                                     /\ item[i].geom[2] = item[i].geom[4]
           \/ item[i].kind # "line" /\ item[i].geom[3] = 0
                                     /\ item[i].geom[4] = 0
====
